---- MODULE Spec2Model ----
(***************************************************************************)
(* Token-flow analysis (analysis.py): the TokenFlowAnalyzer object loads a *)
(* list of transfer records, coerces and filters them, estimates the token *)
(* supply, aggregates per-address inflow/outflow and classifies addresses. *)
(*                                                                         *)
(* Numbers.  Every number the analyzer holds is a float64, and every       *)
(* quotient, sum, difference and product is rounded as IEEE 754 rounds it  *)
(* (to nearest, ties to even): amount / 10^token_decimals, the column sums *)
(* of pandas (the plain sum of Series.sum, the compensated sum of the      *)
(* groupby 'sum'), inflow - outflow, and the products of the supply        *)
(* estimate and of the classifier's thresholds.  A numeric cell is a float *)
(* [nan, neg, m, e]; nan marks NaN (a coerced or missing value).           *)
(***************************************************************************)
EXTENDS Integers, Sequences, FiniteSets, TLC

VARIABLES
    data,                    \* the 'data' list of the JSON file (raw records)
    env,                     \* token_address column and metadata collaborator
    feed,                    \* the records the transfer feed can deliver
    df,                      \* self.df
    estimated_token_supply,  \* self.estimated_token_supply
    net_flows_df,            \* self.net_flows_df
    pc,                      \* position of the analyzer run
    call,                    \* arguments of a direct _classify_address_type call
    label,                   \* its return value
    config,                  \* the crawler class and its pagination settings
    page,                    \* page            (the paginated crawl's locals)
    retry,                   \* calls of get_token_transfers made for this page
    attempt,                 \* attempts made inside the current call
    page_data,               \* what the last call returned
    failed_pages,            \* failed_pages
    all_data,                \* all_data
    requests,                \* history: every call's page number and answer
    gets,                    \* history: number of HTTP GETs sent
    total_records,           \* total_records
    all_metadata,            \* all_metadata, as the set of its keys
    page_metadata,           \* 'metadata' in page_data
    token_metadata,          \* what get_token_metadata returned
    frames,                  \* the active calls of get_token_metadata
    refresh_gets,            \* history: GETs sent by the clearance refresh
    accounts,                \* data['metadata']['accounts'] of the JSON file
    address_labels,          \* self.address_labels
    instance_dict,           \* names of the attributes assigned on self
    returned,                \* what the last method call returned
    excluded_addresses,      \* excluded_addresses of check_classification
    session_state            \* st.session_state of the dashboard

crawlVars == <<config, page, retry, attempt, page_data, failed_pages, all_data, requests, gets, total_records, all_metadata, page_metadata, token_metadata, frames, refresh_gets>>

analyzerVars == <<address_labels, instance_dict, returned>>

appVars == <<accounts, excluded_addresses, session_state>>

vars == <<data, env, feed, df, estimated_token_supply, net_flows_df, pc, call, label, crawlVars, analyzerVars, appVars>>

----------------------------------------------------------------------------
(* Bounds and input alphabets *)

MaxRecords == 3

TokenDecimals == {0, 1}

MaxDecimals == CHOOSE d \in TokenDecimals : \A e \in TokenDecimals : e <= d

RECURSIVE Pow10(_)
Pow10(n) == IF n = 0 THEN 1 ELSE 10 * Pow10(n - 1)

\* the whole numbers in which exact token quantities are counted (the
\* arguments of a direct call of the classifier, and the exact sums the
\* float sums are compared with): units of 1/Unit token
Unit == 2 * Pow10(MaxDecimals)

None == "None"

Addresses == {"A", "B"}

----------------------------------------------------------------------------
(* float64.  A float is [nan, neg, m, e] of value m * 2^e (negated when     *)
(* neg), where m is zero (the empty sequence) or a number of exactly 53    *)
(* bits, kept as its four digits in base 2^14, least significant first.    *)
(* Each operation forms the exact result and rounds it to the nearest      *)
(* float (ties to even).  Subnormal numbers and infinities do not occur    *)
(* for the quantities of the model.                                        *)

\* digits of 14 bits: a sum of four products of two digits, and a carry,
\* stay below 2^31
BitsPerDigit == 14

Base == 2^BitsPerDigit

\* the bits of a float64 significand
Precision == 53

\* the digits that hold a significand
SignificandDigits == 4

\* the number of bits of a digit
RECURSIVE DigitBits(_)
DigitBits(n) == IF n = 0 THEN 0 ELSE 1 + DigitBits(n \div 2)

\* a * b for two significands of four digits, in eight digits
MulDigits(a, b) ==
    LET c1 == a[1] * b[1]
        c2 == a[1] * b[2] + a[2] * b[1] + c1 \div Base
        c3 == a[1] * b[3] + a[2] * b[2] + a[3] * b[1] + c2 \div Base
        c4 == a[1] * b[4] + a[2] * b[3] + a[3] * b[2] + a[4] * b[1] + c3 \div Base
        c5 == a[2] * b[4] + a[3] * b[3] + a[4] * b[2] + c4 \div Base
        c6 == a[3] * b[4] + a[4] * b[3] + c5 \div Base
        c7 == a[4] * b[4] + c6 \div Base
    IN  <<c1 % Base, c2 % Base, c3 % Base, c4 % Base, c5 % Base, c6 % Base,
          c7 % Base, c7 \div Base>>

\* the digits of num / den after the point, five of them, and whether
\* anything is left; r is what is left of the integer part
RECURSIVE Fraction(_, _, _)
Fraction(r, den, count) ==
    IF count = 0 THEN [digits |-> <<>>, left |-> r # 0]
    ELSE LET rest == Fraction((r * Base) % den, den, count - 1)
         IN  [digits |-> Append(rest.digits, (r * Base) \div den), left |-> rest.left]

\* the position of the highest digit of n that is not zero, from i downwards
RECURSIVE HighestDigit(_, _)
HighestDigit(n, i) == IF n[i] # 0 THEN i ELSE HighestDigit(n, i - 1)

\* q + 1 for a significand q
Increment(q) ==
    IF q[1] + 1 < Base THEN <<q[1] + 1, q[2], q[3], q[4]>>
    ELSE IF q[2] + 1 < Base THEN <<0, q[2] + 1, q[3], q[4]>>
    ELSE IF q[3] + 1 < Base THEN <<0, 0, q[3] + 1, q[4]>>
    ELSE <<0, 0, 0, q[4] + 1>>

\* -1, 0 or 1 as a is below, equal to or above b, comparing the digits from
\* i downwards
RECURSIVE CompareDigits(_, _, _)
CompareDigits(a, b, i) ==
    IF i = 0 THEN 0
    ELSE IF a[i] # b[i] THEN (IF a[i] < b[i] THEN -1 ELSE 1)
    ELSE CompareDigits(a, b, i - 1)

FloatNaN == [nan |-> TRUE, neg |-> FALSE, m |-> <<>>, e |-> 0]

Float(neg, m, e) == [nan |-> FALSE, neg |-> neg, m |-> m, e |-> e]

FloatZero == Float(FALSE, <<>>, 0)

\* the highest digit of a significand of 53 bits, plus one
TopDigitLimit == 2^(Precision - (SignificandDigits - 1) * BitsPerDigit)

\* q * 2^e with q of 53 bits, or 2^53 after a carry out of the rounding
Renormalised(neg, q, e) ==
    IF q[SignificandDigits] = TopDigitLimit
    THEN Float(neg, <<0, 0, 0, TopDigitLimit \div 2>>, e + 1)
    ELSE Float(neg, q, e)

\* the float nearest to (n + f) * 2^e, for a natural number n of 54 bits or
\* more and a fraction 0 <= f < 1 that is not zero when inexact is true:
\* round to nearest, ties to even
RoundToFloat(neg, n, inexact, e) ==
    LET top == HighestDigit(n, Len(n))
        \* the bits cut off: whole digits, and bits of the next digit
        cut == (top - 1) * BitsPerDigit + DigitBits(n[top]) - Precision
        whole == cut \div BitsPerDigit
        low == 2^(cut % BitsPerDigit)
        high == Base \div low
        Digit(i) == IF i > Len(n) THEN 0 ELSE n[i]
        Kept(i) == Digit(i + whole) \div low + (Digit(i + whole + 1) % low) * high
        q == <<Kept(1), Kept(2), Kept(3), Kept(4)>>
        \* the highest bit cut off, and the bits below it
        half_digit == (cut - 1) \div BitsPerDigit + 1
        half_bit == 2^((cut - 1) % BitsPerDigit)
        half == (n[half_digit] \div half_bit) % 2 = 1
        rest == \/ inexact
                \/ n[half_digit] % half_bit # 0
                \/ \E i \in 1..(half_digit - 1) : n[i] # 0
    IN  IF half /\ (rest \/ q[1] % 2 = 1)
        THEN Renormalised(neg, Increment(q), e + cut)
        ELSE Float(neg, q, e + cut)

\* the float nearest to num / den: what Python makes of a decimal literal,
\* and of the quotient of two integers
FloatOf(num, den) ==
    LET n == IF num < 0 THEN -num ELSE num
        whole == n \div den
        fraction == Fraction(n % den, den, SignificandDigits + 1)
        digits == fraction.digits
                  \o <<whole % Base, (whole \div Base) % Base, whole \div (Base * Base)>>
    IN  IF num = 0 THEN FloatZero
        ELSE RoundToFloat(num < 0, digits, fraction.left,
                          -((SignificandDigits + 1) * BitsPerDigit))

\* a * b in float64
FloatMul(a, b) ==
    IF a.nan \/ b.nan THEN FloatNaN
    ELSE IF a.m = <<>> \/ b.m = <<>> THEN Float(a.neg # b.neg, <<>>, 0)
    ELSE RoundToFloat(a.neg # b.neg, MulDigits(a.m, b.m), FALSE, a.e + b.e)


\* the number of bits of a natural number given by its digits
BitLength(n) ==
    LET top == HighestDigit(n, Len(n))
    IN  (top - 1) * BitsPerDigit + DigitBits(n[top])

\* n * 2^k in len digits, for a natural number n that fits
ShiftLeft(n, k, len) ==
    LET whole == k \div BitsPerDigit
        low == 2^(k % BitsPerDigit)
        high == Base \div low
        Digit(i) == IF i < 1 \/ i > Len(n) THEN 0 ELSE n[i]
    IN  [i \in 1..len |->
            (Digit(i - whole) % high) * low + Digit(i - whole - 1) \div high]

\* a + b for two natural numbers of eight digits
AddDigits(a, b) ==
    LET c1 == a[1] + b[1]
        c2 == a[2] + b[2] + c1 \div Base
        c3 == a[3] + b[3] + c2 \div Base
        c4 == a[4] + b[4] + c3 \div Base
        c5 == a[5] + b[5] + c4 \div Base
        c6 == a[6] + b[6] + c5 \div Base
        c7 == a[7] + b[7] + c6 \div Base
        c8 == a[8] + b[8] + c7 \div Base
    IN  <<c1 % Base, c2 % Base, c3 % Base, c4 % Base, c5 % Base, c6 % Base,
          c7 % Base, c8>>

\* a - b for two natural numbers of eight digits, a >= b
SubDigits(a, b) ==
    LET c1 == a[1] - b[1]
        c2 == a[2] - b[2] + c1 \div Base
        c3 == a[3] - b[3] + c2 \div Base
        c4 == a[4] - b[4] + c3 \div Base
        c5 == a[5] - b[5] + c4 \div Base
        c6 == a[6] - b[6] + c5 \div Base
        c7 == a[7] - b[7] + c6 \div Base
        c8 == a[8] - b[8] + c7 \div Base
    IN  <<c1 % Base, c2 % Base, c3 % Base, c4 % Base, c5 % Base, c6 % Base,
          c7 % Base, c8>>

\* the float of value n * 2^e for a natural number n that is not zero: n
\* itself when it has at most 53 bits, else n rounded
FloatFrom(neg, n, e) ==
    LET bits == BitLength(n)
    IN  IF bits > Precision
        THEN RoundToFloat(neg, n, FALSE, e)
        ELSE Float(neg, ShiftLeft(n, Precision - bits, SignificandDigits),
                   e - (Precision - bits))

\* -a
FloatNeg(a) == IF a.nan THEN a ELSE Float(~a.neg, a.m, a.e)

\* abs(a)
FloatAbs(a) == IF a.nan THEN a ELSE Float(FALSE, a.m, a.e)

\* the exponents further apart than this leave the larger operand unchanged
AbsorbedGap == Precision + 2

\* a + b in float64: the exact sum, rounded
FloatAdd(a, b) ==
    IF a.nan \/ b.nan THEN FloatNaN
    ELSE IF a.m = <<>> THEN (IF b.m = <<>> THEN Float(a.neg /\ b.neg, <<>>, 0) ELSE b)
    ELSE IF b.m = <<>> THEN a
    ELSE LET hi == IF a.e >= b.e THEN a ELSE b
             lo == IF a.e >= b.e THEN b ELSE a
             gap == hi.e - lo.e
         IN  IF gap > AbsorbedGap THEN hi
             ELSE LET H == ShiftLeft(hi.m, gap, 2 * SignificandDigits)
                      L == lo.m \o <<0, 0, 0, 0>>
                      c == CompareDigits(H, L, 2 * SignificandDigits)
                      same_sign == hi.neg = lo.neg
                      \* the sum of the magnitudes, or the larger less the smaller
                      n == IF same_sign THEN AddDigits(H, L)
                           ELSE SubDigits(IF c > 0 THEN H ELSE L, IF c > 0 THEN L ELSE H)
                  IN  IF ~same_sign /\ c = 0 THEN FloatZero
                      ELSE FloatFrom(IF same_sign \/ c > 0 THEN hi.neg ELSE lo.neg, n, lo.e)

\* a - b in float64
FloatSub(a, b) == FloatAdd(a, FloatNeg(b))

\* a / den in float64 for a whole number 0 < den < 2^14: the digits of the
\* quotient of the significand, two of them after the point, rounded
FloatDiv(a, den) ==
    IF a.nan \/ a.m = <<>> THEN a
    ELSE LET c4 == a.m[4]
             c3 == (c4 % den) * Base + a.m[3]
             c2 == (c3 % den) * Base + a.m[2]
             c1 == (c2 % den) * Base + a.m[1]
             f1 == (c1 % den) * Base
             f2 == (f1 % den) * Base
         IN  RoundToFloat(a.neg,
                          <<f2 \div den, f1 \div den, c1 \div den, c2 \div den,
                            c3 \div den, c4 \div den>>,
                          f2 % den # 0, a.e - 2 * BitsPerDigit)

\* -1, 0 or 1 as |a| is below, equal to or above |b|
CompareMagnitude(a, b) ==
    IF a.m = <<>> \/ b.m = <<>>
    THEN (IF a.m = b.m THEN 0 ELSE IF a.m = <<>> THEN -1 ELSE 1)
    ELSE IF a.e # b.e THEN (IF a.e < b.e THEN -1 ELSE 1)
    ELSE CompareDigits(a.m, b.m, SignificandDigits)

\* -1, 0 or 1 as a is below, equal to or above b; neither is NaN
CompareFloat(a, b) ==
    LET a_negative == a.neg /\ a.m # <<>>
        b_negative == b.neg /\ b.m # <<>>
    IN  IF a_negative # b_negative THEN (IF a_negative THEN -1 ELSE 1)
        ELSE IF a_negative THEN CompareMagnitude(b, a)
        ELSE CompareMagnitude(a, b)

\* a >= b and a < b on floats: every comparison with NaN is false
FloatGE(a, b) == ~a.nan /\ ~b.nan /\ CompareFloat(a, b) >= 0

FloatLT(a, b) == ~a.nan /\ ~b.nan /\ CompareFloat(a, b) < 0

FloatGT(a, b) == ~a.nan /\ ~b.nan /\ CompareFloat(a, b) > 0

FloatLE(a, b) == ~a.nan /\ ~b.nan /\ CompareFloat(a, b) <= 0

\* a == b on floats: false for NaN, true for 0.0 and -0.0
FloatEQ(a, b) == ~a.nan /\ ~b.nan /\ CompareFloat(a, b) = 0

----------------------------------------------------------------------------
(* JSON values and pandas cells *)

\* the JSON number n / 10^d (n itself when d = 0), the string of the digits
\* of n, a string that is no number, and null
Dec(n, d) == [t |-> "num", v |-> n, d |-> d]
Num(n) == Dec(n, 0)
Str(n) == [t |-> "str", v |-> n, d |-> 0]
Junk == [t |-> "junk", v |-> 0, d |-> 0]
Null == [t |-> "null", v |-> 0, d |-> 0]

\* a supply of n units of 1/Unit token, as an argument of a direct call of
\* the classifier
Val(n) == [nan |-> FALSE, v |-> n]

\* pd.to_numeric(column, errors='coerce'): the float nearest to the number
to_numeric(x) == IF x.t \in {"num", "str"} THEN FloatOf(x.v, Pow10(x.d)) ELSE FloatNaN

Abs(x) == IF x < 0 THEN -x ELSE x

----------------------------------------------------------------------------
(* _preprocess_data: type conversion, actual amounts, supply estimate,     *)
(* dropna                                                                  *)

\* 10 ** token_decimals, for the decimals the feed uses
power_of_ten(token_decimals) ==
    Pow10(CHOOSE d \in TokenDecimals : FloatOf(d, 1) = token_decimals)

\* self.df['amount'] / (10 ** self.df['token_decimals'])       (line 90)
actual_amount(amount, token_decimals) ==
    IF amount.nan \/ token_decimals.nan
    THEN FloatNaN
    ELSE FloatDiv(amount, power_of_ten(token_decimals))

\* one row of self.df after the conversions of lines 84-90
Coerce(r) ==
    LET amount == to_numeric(r.amount)
        token_decimals == to_numeric(r.token_decimals)
    IN  [from_address   |-> r.from_address,
         to_address     |-> r.to_address,
         amount         |-> amount,
         value          |-> to_numeric(r.value),
         token_decimals |-> token_decimals,
         trans_id       |-> r.trans_id,
         actual_amount  |-> actual_amount(amount, token_decimals)]

CoerceAll(rows) == [i \in 1..Len(rows) |-> Coerce(rows[i])]

\* DataFrame.dropna(subset=['from_address','to_address','amount','actual_amount'])
Retained(row) ==
    /\ row.from_address # None
    /\ row.to_address # None
    /\ ~row.amount.nan
    /\ ~row.actual_amount.nan

RECURSIVE dropna(_)
dropna(rows) ==
    IF rows = <<>> THEN <<>>
    ELSE IF Retained(Head(rows))
         THEN <<Head(rows)>> \o dropna(Tail(rows))
         ELSE dropna(Tail(rows))

\* Series.sum(): the cells added one after the other to 0.0, a NaN cell
\* adding nothing
RECURSIVE SumFrom(_, _)
SumFrom(total, cells) ==
    IF cells = <<>> THEN total
    ELSE SumFrom(IF Head(cells).nan THEN total ELSE FloatAdd(total, Head(cells)),
                 Tail(cells))

SumCells(cells) == SumFrom(FloatZero, cells)

\* Series.max(): NaN cells are skipped, NaN when nothing is left
RECURSIVE MaxCells(_)
MaxCells(cells) ==
    IF cells = <<>> THEN FloatNaN
    ELSE LET rest == MaxCells(Tail(cells))
             h == Head(cells)
         IN  IF h.nan THEN rest
             ELSE IF rest.nan THEN h
             ELSE IF FloatGT(rest, h) THEN rest ELSE h

\* Python's built-in max over floats: the first element stays unless a later
\* one compares greater, and every comparison with NaN is false
RECURSIVE PyMaxFrom(_, _)
PyMaxFrom(best, rest) ==
    IF rest = <<>> THEN best
    ELSE PyMaxFrom(IF FloatGT(Head(rest), best) THEN Head(rest) ELSE best, Tail(rest))

PyMax(xs) == PyMaxFrom(Head(xs), Tail(xs))

\* cell * k for a whole number k, and cell * 0.5
Times(cell, k) == FloatMul(cell, FloatOf(k, 1))

Half(cell) == FloatMul(cell, FloatOf(1, 2))

Column(rows, f) == [i \in 1..Len(rows) |-> rows[i][f]]

\* max(total_volume * 5, max_single_amount * 200)          (lines 141-149)
SimpleEstimate(rows) ==
    LET total_volume == SumCells(Column(rows, "actual_amount"))
        max_single_amount == MaxCells(Column(rows, "actual_amount"))
    IN  PyMax(<<Times(total_volume, 5), Times(max_single_amount, 200)>>)

\* the improved estimate with the plain multiplier for every token family
improved_estimate_one_family(rows, token_address) ==
    LET total_volume == SumCells(Column(rows, "actual_amount"))
        max_single_amount == MaxCells(Column(rows, "actual_amount"))
        unique_addresses ==
            Cardinality({rows[i].from_address : i \in 1..Len(rows)}
                        \cup {rows[i].to_address : i \in 1..Len(rows)})
    IN  PyMax(<<Times(max_single_amount, 20),
                Times(total_volume, 10),
                Half(Times(max_single_amount, unique_addresses))>>)

\* the 'improved' estimate used when metadata carries no supply (lines 110-133)
ImprovedEstimate(rows, token_address) ==
    LET total_volume == SumCells(Column(rows, "actual_amount"))
        max_single_amount == MaxCells(Column(rows, "actual_amount"))
        unique_addresses ==
            Cardinality({rows[i].from_address : i \in 1..Len(rows)}
                        \cup {rows[i].to_address : i \in 1..Len(rows)})
        estimated_multiplier == IF token_address = "pump" THEN 50 ELSE 20
    IN  PyMax(<<Times(max_single_amount, estimated_multiplier),
                Times(total_volume, 10),
                Half(Times(max_single_amount, unique_addresses))>>)

----------------------------------------------------------------------------
(* _classify_address_type.  The label strings of the source are written in  *)
(* ASCII here:                                                             *)
(*   large_market_maker         大型做市商  *)
(*   market_maker_arbitrageur   做市商/套利者  *)
(*   whale_buy                  鲸鱼买入  *)
(*   whale_sell                 鲸鱼卖出  *)
(*   large_buyer                大买家  *)
(*   large_seller               大卖家  *)
(*   active_buyer               活跃买家  *)
(*   active_seller              活跃卖家  *)
(*   large_holder_buy           大户买入  *)
(*   large_holder_sell          大户卖出  *)
(*   medium_buyer               中等买家  *)
(*   medium_seller              中等卖家  *)
(*   ordinary_buyer             普通买家  *)
(*   ordinary_seller            普通卖家  *)
(*   no_net_flow                无净流动  *)

active_threshold == 10

\* the float nearest to a quantity of n units: the literal a caller writes
Tokens(n) == FloatOf(n, Unit)

\* a supply argument as a float
SupplyFloat(supply) == IF supply.nan THEN FloatNaN ELSE FloatOf(supply.v, Unit)

\* the literals 0.001, 0.0005, 0.0001 (lines 277-279) and 0.1 (line 288)
whale_share == FloatOf(1, 1000)

large_holder_share == FloatOf(5, 10000)

medium_share == FloatOf(1, 10000)

near_zero_share == FloatOf(1, 10)

\* x >= threshold; false when the threshold is NaN
AtLeast(x, threshold) == FloatGE(x, threshold)

\* x < threshold; false when the threshold is NaN
Below(x, threshold) == FloatLT(x, threshold)

\* the comparison turned round
is_active_at_most(total_transactions) == total_transactions <= active_threshold

\* 'if total_transactions >= active_threshold'            (line 286)
is_active(total_transactions) == total_transactions >= active_threshold

\* the same branches without the final else: the function then returns None
ordinary_label_no_else(net_tokens) ==
    IF FloatGT(net_tokens, FloatZero) THEN "ordinary_buyer"
    ELSE IF FloatLT(net_tokens, FloatZero) THEN "ordinary_seller"
    ELSE "None"

\* the last three branches of the low-frequency case     (lines 324-329)
ordinary_label(net_tokens) ==
    IF FloatGT(net_tokens, FloatZero) THEN "ordinary_buyer"
    ELSE IF FloatLT(net_tokens, FloatZero) THEN "ordinary_seller"
    ELSE "no_net_flow"

\* _classify_address_type(net_tokens, inflow_tokens, outflow_tokens,
\* total_transactions) with self.estimated_token_supply = supply; the
\* quantities are floats                                   (lines 263-329)
classify_address_type(net_tokens, inflow_tokens, outflow_tokens, total_transactions, supply) ==
    LET whale_threshold == FloatMul(supply, whale_share)
        large_holder_threshold == FloatMul(supply, large_holder_share)
        medium_threshold == FloatMul(supply, medium_share)
        abs_net_tokens == FloatAbs(net_tokens)
        max_position == PyMax(<<FloatAbs(inflow_tokens), FloatAbs(outflow_tokens)>>)
        buys == FloatGT(net_tokens, FloatZero)
    IN  IF is_active(total_transactions)
        THEN IF Below(abs_net_tokens, FloatMul(whale_threshold, near_zero_share))
             THEN IF AtLeast(max_position, whale_threshold)
                  THEN "large_market_maker"
                  ELSE "market_maker_arbitrageur"
             ELSE IF AtLeast(abs_net_tokens, whale_threshold)
             THEN IF buys THEN "whale_buy" ELSE "whale_sell"
             ELSE IF AtLeast(abs_net_tokens, large_holder_threshold)
             THEN IF buys THEN "large_buyer" ELSE "large_seller"
             ELSE IF buys THEN "active_buyer" ELSE "active_seller"
        ELSE IF AtLeast(abs_net_tokens, whale_threshold)
             THEN IF buys THEN "whale_buy" ELSE "whale_sell"
             ELSE IF AtLeast(abs_net_tokens, large_holder_threshold)
             THEN IF buys THEN "large_holder_buy" ELSE "large_holder_sell"
             ELSE IF AtLeast(abs_net_tokens, medium_threshold)
             THEN IF buys THEN "medium_buyer" ELSE "medium_seller"
             ELSE ordinary_label(net_tokens)

\* the keys of color_map in StreamlitTokenFlowApp.get_address_type_color
color_map_keys ==
    {"whale_buy", "whale_sell", "large_market_maker", "large_holder_buy", "large_holder_sell", "large_buyer",
     "large_seller", "medium_buyer", "medium_seller", "active_buyer", "active_seller", "ordinary_buyer",
     "ordinary_seller", "market_maker_arbitrageur", "no_net_flow"}

----------------------------------------------------------------------------
(* calculate_net_flows *)

\* the rows of one group of df.groupby(key)
Group(rows, key, k) == SelectSeq(rows, LAMBDA r : r[key] = k)

\* one step of the compensated (Kahan) sum in which pandas adds the cells
\* of a group: the running sum and the compensation after the cell val
\*     y = val - compensation;  t = sumx + y;
\*     compensation = (t - sumx) - y;  sumx = t
Compensated(sumx, y, t) == [sumx |-> t, compensation |-> FloatSub(FloatSub(t, sumx), y)]

KahanAdd(sumx, y) == Compensated(sumx, y, FloatAdd(sumx, y))

KahanStep(state, val) == KahanAdd(state.sumx, FloatSub(val, state.compensation))

RECURSIVE KahanFrom(_, _)
KahanFrom(state, cells) ==
    IF cells = <<>> THEN state.sumx
    ELSE KahanFrom(IF Head(cells).nan THEN state ELSE KahanStep(state, Head(cells)),
                   Tail(cells))

\* the sum of the cells of one group, in the order of the rows: NaN cells
\* are skipped, the empty sum is 0.0
group_sum(cells) == KahanFrom([sumx |-> FloatZero, compensation |-> FloatZero], cells)

\* 'sum' aggregation of one column of a group
agg_sum(rows, key, k, f) == group_sum(Column(Group(rows, key, k), f))

\* the three columns that are aggregated with 'sum'
sum_columns == {"actual_amount", "amount", "value"}

\* the 'sum' aggregations of one group, by column
agg_sums(rows, key, k) == [f \in sum_columns |-> agg_sum(rows, key, k, f)]

\* the row of one group of the groupby result, with the columns renamed as
\* lines 178-183 and 191-196 rename them
outflow_row(sums, count) ==
    [outflow_tokens     |-> sums["actual_amount"],
     outflow_raw_amount |-> sums["amount"],
     outflow_value      |-> sums["value"],
     outflow_count      |-> count]

inflow_row(sums, count) ==
    [inflow_tokens     |-> sums["actual_amount"],
     inflow_raw_amount |-> sums["amount"],
     inflow_value      |-> sums["value"],
     inflow_count      |-> count]

\* 'count' aggregation of trans_id: the number of non-null values
agg_count(rows, key, k) ==
    Len(SelectSeq(Group(rows, key, k), LAMBDA r : r.trans_id # None))

GroupKeys(rows, key) == {rows[i][key] : i \in 1..Len(rows)}

\* self.df.groupby('from_address').agg(...)               (lines 173-183)
outflows(rows) ==
    [a \in GroupKeys(rows, "from_address") |->
        outflow_row(agg_sums(rows, "from_address", a), agg_count(rows, "from_address", a))]

\* inflows grouped by the sender column, as a copy of the outflow block would
inflows_by_sender(rows) ==
    [a \in GroupKeys(rows, "from_address") |->
        inflow_row(agg_sums(rows, "from_address", a), agg_count(rows, "from_address", a))]

\* self.df.groupby('to_address').agg(...)                 (lines 186-196)
inflows(rows) ==
    [a \in GroupKeys(rows, "to_address") |->
        inflow_row(agg_sums(rows, "to_address", a), agg_count(rows, "to_address", a))]

\* the address list built from the senders only
senders_only(rows) == GroupKeys(rows, "from_address")

\* set(from_address.unique()) | set(to_address.unique())  (line 199)
all_addresses(rows) ==
    GroupKeys(rows, "from_address") \cup GroupKeys(rows, "to_address")

\* inflow_tokens / outflow_tokens, kept as the pair of its operands
flow_ratio(inflow_tokens, outflow_tokens) ==
    IF FloatGT(outflow_tokens, FloatZero)
    THEN [kind |-> "ratio", num |-> inflow_tokens, den |-> outflow_tokens]
    ELSE IF FloatGT(inflow_tokens, FloatZero)
    THEN [kind |-> "inf", num |-> FloatZero, den |-> FloatZero]
    ELSE [kind |-> "zero", num |-> FloatZero, den |-> FloatZero]

\* the difference taken the wrong way round
net_tokens_swapped(inflow_tokens, outflow_tokens) == FloatSub(outflow_tokens, inflow_tokens)

\* net_tokens = inflow_tokens - outflow_tokens            (line 218)
net_tokens_of(inflow_tokens, outflow_tokens) == FloatSub(inflow_tokens, outflow_tokens)

\* the inflow and the outflow of an address: the row of the groupby result,
\* or the zeros of the else branches                      (lines 206-215)
inflow_of(ins, address) ==
    IF address \in DOMAIN ins
    THEN ins[address]
    ELSE [inflow_tokens |-> FloatZero, inflow_raw_amount |-> FloatZero,
          inflow_value |-> FloatZero, inflow_count |-> 0]

outflow_of(outs, address) ==
    IF address \in DOMAIN outs
    THEN outs[address]
    ELSE [outflow_tokens |-> FloatZero, outflow_raw_amount |-> FloatZero,
          outflow_value |-> FloatZero, outflow_count |-> 0]

\* the dict appended to net_flows for one address, given the two groupby
\* results                                                 (lines 204-245)
net_flow_row(ins, outs, address, supply) ==
    LET i == inflow_of(ins, address)
        o == outflow_of(outs, address)
        net_tokens == net_tokens_of(i.inflow_tokens, o.outflow_tokens)
        net_value == FloatSub(i.inflow_value, o.outflow_value)
        total_transactions == i.inflow_count + o.outflow_count
    IN  [address            |-> address,
         inflow_tokens      |-> i.inflow_tokens,
         inflow_raw_amount  |-> i.inflow_raw_amount,
         inflow_value       |-> i.inflow_value,
         inflow_count       |-> i.inflow_count,
         outflow_tokens     |-> o.outflow_tokens,
         outflow_raw_amount |-> o.outflow_raw_amount,
         outflow_value      |-> o.outflow_value,
         outflow_count      |-> o.outflow_count,
         net_tokens         |-> net_tokens,
         net_value          |-> net_value,
         total_transactions |-> total_transactions,
         flow_ratio         |-> flow_ratio(i.inflow_tokens, o.outflow_tokens),
         address_type       |-> classify_address_type(net_tokens, i.inflow_tokens,
                                    o.outflow_tokens, total_transactions, supply)]

\* the orders in which 'for address in all_addresses' can visit a set
Orders(S) ==
    {o \in [1..Cardinality(S) -> S] : \A a \in S : \E i \in DOMAIN o : o[i] = a}

\* the list net_flows built by visiting the addresses in the given order
net_flows_from(ins, outs, order, supply) ==
    [i \in 1..Len(order) |-> net_flow_row(ins, outs, order[i], supply)]

net_flows(rows, order, supply) ==
    net_flows_from(inflows(rows), outflows(rows), order, supply)

----------------------------------------------------------------------------
(* Inputs *)

Transfer(f, t, amount, decimals, value, id) ==
    [from_address |-> f, to_address |-> t, amount |-> amount,
     token_decimals |-> decimals, value |-> value, trans_id |-> id]

\* well-formed transfers: 100 tokens at 1 decimal (raw 1000, worth 7 USD) and
\* 30 tokens at 0 decimals (raw "30" given as a string, worth 2 USD)
CleanRecords ==
    {Transfer(f, t, Num(1000), Num(1), Num(7), "tx") : f, t \in Addresses}
    \cup {Transfer(f, t, Str(30), Num(0), Num(2), "tx") : f, t \in Addresses}

\* the transfer A -> B of 100 tokens with one field missing, malformed or
\* non-positive
DefectRecords ==
    {Transfer(None, "B", Num(1000), Num(1), Num(7), "tx"),
     Transfer("A", None, Num(1000), Num(1), Num(7), "tx"),
     Transfer("A", "B", Num(0), Num(1), Num(7), "tx"),
     Transfer("A", "B", Num(-300), Num(1), Num(7), "tx"),
     Transfer("A", "B", Junk, Num(1), Num(7), "tx"),
     Transfer("A", "B", Num(1000), Junk, Num(7), "tx"),
     Transfer("A", "B", Num(1000), Num(1), Junk, "tx"),
     Transfer("A", "B", Num(1000), Num(1), Num(7), None)}

Records == CleanRecords \cup DefectRecords

\* well-formed transfers for the sums: 100 tokens A -> B and 30 tokens B -> A
\* as above, and transfers of 0.1, 0.2, 0.3 and 0.7 token (raw 1, 2, 3 and 7
\* at 1 decimal, each worth as many tenths of a USD), one of them from A to
\* itself; 0.1, 0.2, 0.3 and 0.7 are not float64 numbers, and the sums of the
\* floats nearest to them are rounded
FlowRecords ==
    {Transfer("A", "B", Num(1000), Num(1), Num(7), "tx"),
     Transfer("B", "A", Str(30), Num(0), Num(2), "tx"),
     Transfer("B", "A", Num(1), Num(1), Dec(1, 1), "tx"),
     Transfer("B", "A", Num(2), Num(1), Dec(2, 1), "tx"),
     Transfer("B", "A", Num(3), Num(1), Dec(3, 1), "tx"),
     Transfer("A", "B", Num(1), Num(1), Dec(1, 1), "tx"),
     Transfer("A", "A", Num(2), Num(1), Dec(2, 1), "tx"),
     Transfer("A", "B", Num(7), Num(1), Dec(7, 1), "tx")}

\* what the file and the metadata collaborator look like to _preprocess_data:
\* token_address is "none" (no such column), "plain" or "pump"; meta is what
\* importing and calling SolscanAnalyzer.get_token_metadata leads to
Env(token_address, meta, supply) ==
    [token_address |-> token_address, meta |-> meta, supply |-> supply]

FlowEnvs == {Env("none", "unused", 0), Env("plain", "supply", 1000000)}

Unset == [nan |-> TRUE, v |-> -1]

NoCall == [net_tokens |-> 0, inflow_tokens |-> 0, outflow_tokens |-> 0,
           total_transactions |-> 0, supply |-> Unset]

\* a value get_token_transfers returns: "None" stands for every falsy value,
\* "no_data" for a value without records that the test of 'data' lets
\* through (the dict of a 304, a dict without 'data' or with an empty list),
\* "scalar" for a truthy value that is no container, "page" for a dict with
\* records in page_data['data']
Page(kind, records) == [kind |-> kind, data |-> records]

NoPage == Page("None", <<>>)

\* no crawl is under way
NoConfig == [crawler |-> "none", max_pages |-> 0, retry_failed_pages |-> 0]

CrawlIdle ==
    /\ config = NoConfig
    /\ page = 0
    /\ retry = 0
    /\ attempt = 0
    /\ page_data = NoPage
    /\ failed_pages = <<>>
    /\ all_data = <<>>
    /\ requests = <<>>
    /\ gets = 0
    /\ total_records = 0
    /\ all_metadata = {}
    /\ page_metadata = FALSE
    /\ token_metadata = "None"
    /\ frames = <<>>
    /\ refresh_gets = 0

\* the file has no 'metadata' / 'accounts' entry
NoAccounts == [a \in {} |-> [account_address |-> a]]

\* the keys an entry of 'accounts' carries a label under
LabelKeys == {"account_label", "account_domain"}

\* lines 64-71: account_label if the entry has one, else account_domain
load_labels(labels, accts) ==
    LET labelled == {a \in DOMAIN accts : DOMAIN accts[a] \cap LabelKeys # {}}
    IN  [a \in DOMAIN labels \cup labelled |->
            IF a \in labelled
            THEN IF "account_label" \in DOMAIN accts[a]
                 THEN accts[a].account_label
                 ELSE accts[a].account_domain
            ELSE labels[a]]

\* the attributes __init__ assigns (lines 28-31)
init_attributes == {"data_file", "df", "analysis_results", "address_labels"}

\* the methods class TokenFlowAnalyzer defines
analyzer_methods ==
    {"__init__", "load_data", "_preprocess_data", "calculate_net_flows",
     "_classify_address_type", "format_address_display", "get_top_net_inflows",
     "get_top_net_outflows", "analyze_address_patterns", "save_analysis_results",
     "run_full_analysis"}

\* hasattr(analyzer, name): the attributes of the instance, then the class
has_attribute(attributes, name) == name \in attributes \cup analyzer_methods

\* analyzer.name(): the call, or AttributeError when the lookup finds nothing
call_method(attributes, name) ==
    IF has_attribute(attributes, name) THEN "called" ELSE "AttributeError"

\* the analyzer as TokenFlowAnalyzer() leaves it
AnalyzerFresh ==
    /\ address_labels = NoAccounts
    /\ instance_dict = init_attributes
    /\ returned = "none"

\* an analyzer object as the dashboard holds it, and None in its place
NoneObject == [none |-> TRUE, attributes |-> {}, net_flows_df |-> <<>>]

NoSession == [analyzer |-> NoneObject, analysis_complete |-> FALSE, crawl_in_progress |-> FALSE]

\* no label file, no classification check and no dashboard session
AppIdle ==
    /\ accounts = NoAccounts
    /\ excluded_addresses = {}
    /\ session_state = NoSession

----------------------------------------------------------------------------
(* The analyzer run: TokenFlowAnalyzer(), load_data, calculate_net_flows *)

Init ==
    /\ CrawlIdle
    /\ AnalyzerFresh
    /\ AppIdle
    /\ data = <<>>
    /\ env \in FlowEnvs
    /\ feed = Records
    /\ df = <<>>
    /\ estimated_token_supply = Unset
    /\ net_flows_df = <<>>
    /\ pc = "new"
    /\ call = NoCall
    /\ label = "none"

\* one more record in the 'data' list of the file that load_data will read
FeedRecord ==
    /\ pc = "new"
    /\ Len(data) < MaxRecords
    /\ \E r \in feed : data' = Append(data, r)
    /\ UNCHANGED <<env, feed, df, estimated_token_supply, net_flows_df, pc, call, label>>
    /\ UNCHANGED <<crawlVars, analyzerVars, appVars>>

\* the supply chosen by lines 92-150; "raise" when the collaborator raises
SupplyEstimate(rows, e) ==
    IF e.token_address = "none" THEN SimpleEstimate(rows)
    ELSE CASE e.meta = "import_error" -> SimpleEstimate(rows)
           [] e.meta = "supply" -> FloatOf(e.supply, 1)
           [] e.meta = "unavailable" -> ImprovedEstimate(rows, e.token_address)

\* load_data followed by _preprocess_data
LoadData ==
    /\ pc = "new"
    \* lines 64-71, before the DataFrame is built
    /\ address_labels' = load_labels(address_labels, accounts)
    /\ IF data = <<>>
       THEN \* DataFrame([]) has no 'amount' column: KeyError at line 84
            /\ df' = <<>>
            /\ pc' = "load_failed"
            /\ UNCHANGED <<estimated_token_supply, instance_dict>>
       ELSE IF env.token_address # "none" /\ env.meta = "raises"
       THEN \* an exception other than ImportError leaves at line 100-101
            /\ df' = CoerceAll(data)
            /\ pc' = "load_failed"
            /\ UNCHANGED <<estimated_token_supply, instance_dict>>
       ELSE /\ estimated_token_supply' = SupplyEstimate(CoerceAll(data), env)
            /\ instance_dict' = instance_dict \cup {"estimated_token_supply"}
            /\ df' = dropna(CoerceAll(data))
            \* line 158 reads .iloc[0]: IndexError when no record is left
            /\ pc' = IF df' = <<>> THEN "load_failed" ELSE "loaded"
    \* load_data has no return statement: a call that completes yields None
    /\ returned' = IF pc' = "loaded" THEN None ELSE "raised"
    /\ UNCHANGED <<data, env, feed, net_flows_df, call, label>>
    /\ UNCHANGED <<crawlVars, appVars>>

CalculateNetFlows ==
    /\ pc = "loaded"
    /\ \E order \in Orders(all_addresses(df)) :
           net_flows_df' = net_flows(df, order, estimated_token_supply)
    /\ pc' = "analyzed"
    /\ instance_dict' = instance_dict \cup {"net_flows_df"}
    \* line 261: return self.net_flows_df
    /\ returned' = "net_flows_df"
    /\ UNCHANGED <<data, env, feed, df, estimated_token_supply, call, label>>
    /\ UNCHANGED <<crawlVars, address_labels, appVars>>

Next == FeedRecord \/ LoadData \/ CalculateNetFlows

Spec == Init /\ [][Next]_vars

\* the same run for every outcome of the metadata lookup of lines 93-143: the
\* records carry no token_address, or the address of a plain or a pump-style
\* token and then SolscanAnalyzer returns a supply ("supply"), returns nothing
\* or metadata without one ("unavailable"), cannot be imported
\* ("import_error"), or its constructor or get_token_metadata raises another
\* exception ("raises")
SupplyEnvs ==
    {Env("none", "unused", 0)}
    \cup {Env(t, m, 1000000) : t \in {"plain", "pump"},
                               m \in {"supply", "unavailable", "import_error", "raises"}}

\* 1.1 tokens A -> B, 30 tokens B -> A, and A -> B with a zero, a negative and
\* an unparsable amount and with the sender missing
SupplyRecords ==
    {Transfer("A", "B", Num(11), Num(1), Num(7), "tx"),
     Transfer("B", "A", Str(30), Num(0), Num(2), "tx"),
     Transfer("A", "B", Num(0), Num(1), Num(7), "tx"),
     Transfer("A", "B", Num(-300), Num(1), Num(7), "tx"),
     Transfer("A", "B", Junk, Num(1), Num(7), "tx"),
     Transfer(None, "B", Num(1000), Num(1), Num(7), "tx")}

InitSupply ==
    /\ CrawlIdle
    /\ AnalyzerFresh
    /\ AppIdle
    /\ data = <<>>
    /\ env \in SupplyEnvs
    /\ feed = SupplyRecords
    /\ df = <<>>
    /\ estimated_token_supply = Unset
    /\ net_flows_df = <<>>
    /\ pc = "new"
    /\ call = NoCall
    /\ label = "none"

SpecSupply == InitSupply /\ [][Next]_vars

\* the same run over the transfers whose sums are rounded
InitFlows ==
    /\ CrawlIdle
    /\ AnalyzerFresh
    /\ AppIdle
    /\ data = <<>>
    /\ env \in FlowEnvs
    /\ feed = FlowRecords
    /\ df = <<>>
    /\ estimated_token_supply = Unset
    /\ net_flows_df = <<>>
    /\ pc = "new"
    /\ call = NoCall
    /\ label = "none"

SpecFlows == InitFlows /\ [][Next]_vars

----------------------------------------------------------------------------
(* _classify_address_type called on its own, over a grid of arguments that *)
(* straddles every threshold of a supply of 10,000 and of 1,000,000 units, *)
(* and that holds 14 units (0.7 token) with the supplies of 700, 1,400 and *)
(* 7,000 tokens, of which 0.7 is 0.1%, 0.05% and 0.01% and for which the   *)
(* float64 product comes out as 0.7000000000000001                         *)

NetValues ==
    {-2000, -1000, -999, -500, -499, -100, -99, -14, -10, -1, 0,
     1, 10, 14, 99, 100, 499, 500, 999, 1000, 2000}

FlowValues == {0, 14, 500, 999, 1000, 2000}

TransactionCounts == {0, 1, 9, 10, 12, 15}

SupplyValues ==
    {Val(-1000), Val(0), Val(10000), Val(14000), Val(28000), Val(140000), Val(1000000)}

InitClassify ==
    /\ CrawlIdle
    /\ AnalyzerFresh
    /\ AppIdle
    /\ data = <<>>
    /\ env = Env("none", "unused", 0)
    /\ feed = {}
    /\ df = <<>>
    /\ estimated_token_supply = Unset
    /\ net_flows_df = <<>>
    /\ pc = "call"
    /\ call \in [net_tokens : NetValues, inflow_tokens : FlowValues,
                 outflow_tokens : FlowValues,
                 total_transactions : TransactionCounts,
                 supply : SupplyValues]
    /\ label = "none"

ClassifyCall ==
    /\ pc = "call"
    /\ label' = classify_address_type(Tokens(call.net_tokens), Tokens(call.inflow_tokens),
                    Tokens(call.outflow_tokens), call.total_transactions,
                    SupplyFloat(call.supply))
    /\ pc' = "returned"
    /\ UNCHANGED <<data, env, feed, df, estimated_token_supply, net_flows_df, call>>
    /\ UNCHANGED <<crawlVars, analyzerVars, appVars>>

NextClassify == ClassifyCall

SpecClassify == InitClassify /\ [][NextClassify]_vars

----------------------------------------------------------------------------
(* Properties of the aggregation (specifications SpecFlows and Spec) *)

Analyzed == pc = "analyzed"

Rows == {net_flows_df[i] : i \in DOMAIN net_flows_df}

RowsOf(a) == {i \in DOMAIN net_flows_df : net_flows_df[i].address = a}

\* the addresses occurring as sender or receiver of a retained record
Occurring ==
    {df[j].from_address : j \in DOMAIN df} \cup {df[j].to_address : j \in DOMAIN df}

\* a record of the file with both addresses and whole numbers for its amount
\* and its decimals
WellFormed(r) ==
    /\ r.from_address # None /\ r.to_address # None
    /\ r.amount.t \in {"num", "str"} /\ r.amount.d = 0
    /\ r.token_decimals.t \in {"num", "str"} /\ r.token_decimals.d = 0

\* amount / 10^token_decimals of a record of the file, as a whole number of
\* units: the exact quotient
TokensOf(r) == r.amount.v * (Unit \div Pow10(r.token_decimals.v))

\* the exact sum of the token amounts of the well-formed records with address
\* a in the column key, in units
RECURSIVE SumTokens(_, _, _)
SumTokens(records, key, a) ==
    IF records = <<>> THEN 0
    ELSE (IF WellFormed(Head(records)) /\ Head(records)[key] = a
          THEN TokensOf(Head(records)) ELSE 0)
         + SumTokens(Tail(records), key, a)

\* the float nearest to the exact sum
ExactSum(records, key, a) == FloatOf(SumTokens(records, key, a), Unit)

\* every well-formed record of the file is of a whole number of tokens
WholeTokens == \A i \in DOMAIN data : WellFormed(data[i]) => TokensOf(data[i]) % Unit = 0

CountWhere(rows, key, a) == Cardinality({j \in DOMAIN rows : rows[j][key] = a})

\* 2^k as a float
FloatPow2(k) == Float(FALSE, <<0, 0, 0, TopDigitLimit \div 2>>, k - (Precision - 1))

\* the share of a quantity that the rounding of its float sums stays within:
\* 2^-48, about 3.6e-15
RoundingShare == FloatPow2(-48)

\* |x - y| is at most the rounding share of |scale|
Close(x, y, scale) ==
    FloatLE(FloatAbs(FloatSub(x, y)), FloatMul(FloatAbs(scale), RoundingShare))

C2_NetIsInflowMinusOutflow ==
    Analyzed =>
        \A r \in Rows :
            FloatEQ(r.net_tokens, FloatSub(r.inflow_tokens, r.outflow_tokens))

\* A receives 0.3 and sends 0.1: the net is 0.19999999999999998, the float
\* difference, not the float nearest to 0.2
C2_Witness ==
    /\ Analyzed
    /\ Len(df) = 2
    /\ \E r \in Rows :
          /\ r.inflow_tokens = FloatOf(3, 10)
          /\ r.outflow_tokens = FloatOf(1, 10)
          /\ r.net_tokens # FloatOf(2, 10)
          /\ FloatGT(r.net_tokens, FloatZero)

\* C3: every row has total_transactions = inflow_count + outflow_count, with
\* inflow_count the number of retained records received by the address and
\* outflow_count the number sent: each retained record counts once for its
\* sender and once for its receiver.
C3_CountsEveryRetainedRecord ==
    Analyzed =>
        \A r \in Rows :
            /\ r.total_transactions = r.inflow_count + r.outflow_count
            /\ r.inflow_count = CountWhere(df, "to_address", r.address)
            /\ r.outflow_count = CountWhere(df, "from_address", r.address)

\* the net_tokens column of the table added up, row after row
SumNet(rows) == SumCells(Column(rows, "net_tokens"))

\* every retained record goes from one of two addresses to the other
IsolatedPair ==
    /\ \A j \in DOMAIN df : df[j].from_address # df[j].to_address
    /\ Cardinality(Occurring) = 2

Flow(ins, outs, a) ==
    LET i == inflow_of(ins, a)
        o == outflow_of(outs, a)
    IN  [inflow_tokens  |-> i.inflow_tokens,  outflow_tokens |-> o.outflow_tokens,
         inflow_value   |-> i.inflow_value,   outflow_value  |-> o.outflow_value,
         inflow_count   |-> i.inflow_count,   outflow_count  |-> o.outflow_count]

\* the address-to-flow map of a record sequence
FlowMapFrom(ins, outs, addresses) == [a \in addresses |-> Flow(ins, outs, a)]

FlowMap(rows) == FlowMapFrom(inflows(rows), outflows(rows), all_addresses(rows))

\* the address-to-flow map held in net_flows_df
TableMap ==
    [a \in {r.address : r \in Rows} |->
        LET r == CHOOSE x \in Rows : x.address = a
        IN  [inflow_tokens  |-> r.inflow_tokens,  outflow_tokens |-> r.outflow_tokens,
             inflow_value   |-> r.inflow_value,   outflow_value  |-> r.outflow_value,
             inflow_count   |-> r.inflow_count,   outflow_count  |-> r.outflow_count]]

Permuted(rows, p) == [i \in 1..Len(rows) |-> rows[p[i]]]

\* the records at the positions S, in their order
Part(rows, S) ==
    LET F[i \in 0..Len(rows)] ==
            IF i = 0 THEN <<>>
            ELSE IF i \in S THEN Append(F[i - 1], rows[i]) ELSE F[i - 1]
    IN  F[Len(rows)]

ZeroFlow ==
    [inflow_tokens |-> FloatZero, outflow_tokens |-> FloatZero,
     inflow_value |-> FloatZero, outflow_value |-> FloatZero,
     inflow_count |-> 0, outflow_count |-> 0]

\* field-wise sum of two partial maps: float64 sums of the token and USD
\* fields, whole-number sums of the counts
Merge(m1, m2) ==
    [a \in DOMAIN m1 \cup DOMAIN m2 |->
        LET x == IF a \in DOMAIN m1 THEN m1[a] ELSE ZeroFlow
            y == IF a \in DOMAIN m2 THEN m2[a] ELSE ZeroFlow
        IN  [inflow_tokens  |-> FloatAdd(x.inflow_tokens, y.inflow_tokens),
             outflow_tokens |-> FloatAdd(x.outflow_tokens, y.outflow_tokens),
             inflow_value   |-> FloatAdd(x.inflow_value, y.inflow_value),
             outflow_value  |-> FloatAdd(x.outflow_value, y.outflow_value),
             inflow_count   |-> x.inflow_count + y.inflow_count,
             outflow_count  |-> x.outflow_count + y.outflow_count]]

SameForEveryOrderAndPartition(rows, map) ==
    /\ \A p \in Orders(DOMAIN rows) : FlowMap(Permuted(rows, p)) = map
    /\ \A S \in SUBSET DOMAIN rows :
          Merge(FlowMap(Part(rows, S)), FlowMap(Part(rows, DOMAIN rows \ S))) = map

\* C5: the address-to-flow map does not depend on the order of the records,
\* and aggregating any two complementary parts of the records separately and
\* summing the partial rows field by field gives the map of the whole.
C5_OrderAndPartitionIndependent ==
    Analyzed => SameForEveryOrderAndPartition(df, TableMap)

\* the table that the analysis builds from a list of raw records
TableOf(records) == FlowMap(dropna(CoerceAll(records)))

\* a record the aggregator is required to skip
MustBeSkipped(r) ==
    \/ r.from_address = None
    \/ r.to_address = None
    \/ r.amount.t \in {"num", "str"} /\ r.amount.v <= 0

\* C6: a record with a missing from_address, a missing to_address or an amount
\* that is zero or negative creates no row and changes no field of any row:
\* the table is the one built from the other records alone.
C6_SkippedRecordsLeaveNoTrace ==
    Analyzed => TableMap = TableOf(SelectSeq(data, LAMBDA r : ~MustBeSkipped(r)))

IsMalformed(x) == x.t \notin {"num", "str"}

\* C7: a record with a malformed amount, token_decimals or value is dropped
\* and contributes to no total and no count: the table is the one built from
\* the records whose three numeric fields are numbers.
C7_AnyMalformedFieldDropsRecord ==
    Analyzed =>
        TableMap = TableOf(SelectSeq(data, LAMBDA r :
                       /\ ~IsMalformed(r.amount)
                       /\ ~IsMalformed(r.token_decimals)
                       /\ ~IsMalformed(r.value)))

----------------------------------------------------------------------------
(* Properties of the classifier (specification SpecClassify) *)

Returned == pc = "returned"

MarketMakerLabels == {"large_market_maker", "market_maker_arbitrageur"}

\* C8: an address whose inflow_tokens and outflow_tokens are both zero (so its
\* net_tokens is zero) is labelled no_net_flow, never with a market-maker
\* label, whatever its transaction count (stated for the ordinary case of a
\* positive estimated supply).
C8_ZeroFlowIsNoNetFlow ==
    (/\ Returned
     /\ call.supply.v > 0
     /\ call.inflow_tokens = 0 /\ call.outflow_tokens = 0 /\ call.net_tokens = 0)
        => label = "no_net_flow" /\ label \notin MarketMakerLabels

\* C9: an address with total_transactions = 0 never receives a market-maker
\* label, for any inflow, outflow, net and estimated supply.
C9_NoTransactionsNoMarketMaker ==
    Returned /\ call.total_transactions = 0 => label \notin MarketMakerLabels

\* no transactions, round-trip volume at the whale threshold, net zero
C9_Witness ==
    /\ Returned
    /\ call.total_transactions = 0
    /\ call.net_tokens = 0
    /\ call.inflow_tokens = 1000 /\ call.outflow_tokens = 1000
    /\ call.supply = Val(1000000)
    /\ label = "no_net_flow"

\* C10: for every input and every estimated supply the classifier returns one
\* label, and it is one of the 15 labels the dashboard's colour map knows.
C10_LabelInClosedSet ==
    /\ Cardinality(color_map_keys) = 15
    /\ Returned => label \in color_map_keys

C10_Witness ==
    /\ Returned
    /\ call.supply = Val(0)
    /\ call.net_tokens = 0
    /\ call.total_transactions = 9
    /\ label \in color_map_keys

\* C11: with total_transactions >= 10 and |net_tokens| below 10% of the whale
\* threshold (0.01% of the estimated supply), the label is large_market_maker
\* when the larger of inflow_tokens and outflow_tokens reaches the whale
\* threshold (0.1% of the supply) and market_maker_arbitrageur otherwise.
\* The token flows of the grid are non-negative, as sums of transferred
\* amounts are, so the larger flow is the max(abs(..), abs(..)) of line 284.
C11_MarketMakerBranch ==
    (/\ Returned
     /\ call.total_transactions >= 10
     /\ ~call.supply.nan
     /\ Abs(call.net_tokens) * 10000 < call.supply.v)
        => label = IF \/ call.inflow_tokens * 1000 >= call.supply.v
                      \/ call.outflow_tokens * 1000 >= call.supply.v
                   THEN "large_market_maker"
                   ELSE "market_maker_arbitrageur"

\* C12: with a positive estimated supply the label is whale_buy or whale_sell
\* exactly when |net_tokens| >= 0.1% of the supply, whale_buy for a positive
\* and whale_sell for a negative net_tokens, whatever the transaction count.
C12_WhaleIffAtThreshold ==
    (Returned /\ ~call.supply.nan /\ call.supply.v > 0)
        => /\ label = "whale_buy"
                <=> (call.net_tokens > 0 /\ call.net_tokens * 1000 >= call.supply.v)
           /\ label = "whale_sell"
                <=> (call.net_tokens < 0 /\ (-call.net_tokens) * 1000 >= call.supply.v)

----------------------------------------------------------------------------
(* The low-frequency tiers, on the rows of a run (specification Spec) *)

\* m * k for a significand m and a whole number 0 < k < 2^14, in eight digits
MulSmall(m, k) ==
    LET c1 == m[1] * k
        c2 == m[2] * k + c1 \div Base
        c3 == m[3] * k + c2 \div Base
        c4 == m[4] * k + c3 \div Base
    IN  <<c1 % Base, c2 % Base, c3 % Base, c4 % Base, c4 \div Base, 0, 0, 0>>

\* a * k >= s in exact arithmetic, for floats a >= 0 and s >= 0 and a whole
\* number 0 < k < 2^14: the numbers a_digits * 2^a.e and s.m * 2^s.e are
\* compared by their lengths in bits and, at equal lengths, digit by digit
ScaledAtLeast(a, k, s) ==
    IF s.m = <<>> THEN TRUE
    ELSE IF a.m = <<>> THEN FALSE
    ELSE LET a_digits == MulSmall(a.m, k)
             a_top == BitLength(a_digits) + a.e
             s_top == Precision + s.e
         IN  IF a_top # s_top THEN a_top > s_top
             ELSE CompareDigits(a_digits,
                                ShiftLeft(s.m, s.e - a.e, 2 * SignificandDigits),
                                2 * SignificandDigits) >= 0

\* the label the tiers give to a net flow of fewer than 10 transactions:
\* no_net_flow for a zero net flow, else the first tier |net_tokens| reaches,
\* each share of the supply taken exactly
LowFrequencyTier(net_tokens, supply) ==
    LET a == FloatAbs(net_tokens)
        buy == FloatGT(net_tokens, FloatZero)
    IN  IF FloatEQ(net_tokens, FloatZero) THEN "no_net_flow"
        ELSE IF ScaledAtLeast(a, 1000, supply)
        THEN (IF buy THEN "whale_buy" ELSE "whale_sell")
        ELSE IF ScaledAtLeast(a, 2000, supply)
        THEN (IF buy THEN "large_holder_buy" ELSE "large_holder_sell")
        ELSE IF ScaledAtLeast(a, 10000, supply)
        THEN (IF buy THEN "medium_buyer" ELSE "medium_seller")
        ELSE (IF buy THEN "ordinary_buyer" ELSE "ordinary_seller")

\* C13: a row with total_transactions < 10 is labelled by net_tokens alone:
\* whale at |net| >= 0.1% of the estimated supply, large holder at >= 0.05%,
\* medium at >= 0.01%, ordinary for a smaller non-zero net, each buy or sell
\* by the sign, and no_net_flow exactly when net_tokens = 0 (stated for the
\* runs whose estimated supply is not negative).
C13_LowFrequencyTiers ==
    (Analyzed /\ FloatGE(estimated_token_supply, FloatZero))
        => \A r \in Rows :
               r.total_transactions < 10
                   => /\ r.address_type
                           = LowFrequencyTier(r.net_tokens, estimated_token_supply)
                      /\ r.address_type = "no_net_flow"
                            <=> FloatEQ(r.net_tokens, FloatZero)

----------------------------------------------------------------------------
(* Properties of the supply estimate and of load_data (specifications      *)
(* SpecSupply and Spec)                                                    *)

\* load_data has returned
LoadCompleted == pc \in {"loaded", "analyzed"}

\* no record of the file has a negative amount
NoNegativeAmount ==
    \A i \in DOMAIN data : data[i].amount.t \in {"num", "str"} => data[i].amount.v >= 0

\* C15: whenever load_data completes, the estimated supply is a strictly
\* positive number, also when metadata is unavailable and when every observed
\* amount is zero (stated for the files without a negative amount).
C15_SupplyStrictlyPositive ==
    (LoadCompleted /\ NoNegativeAmount)
        => FloatGT(estimated_token_supply, FloatZero)

\* the token amounts of the records whose amount and decimals are numbers
ObservedAmounts(records) ==
    {x \in {CoerceAll(records)[i].actual_amount : i \in DOMAIN records} : ~x.nan}

ObservedVolume(records) == SumCells(Column(CoerceAll(records), "actual_amount"))

\* from_address and to_address values, a missing address counting as one
ObservedAddresses(records) ==
    {records[i].from_address : i \in DOMAIN records}
        \cup {records[i].to_address : i \in DOMAIN records}

\* the largest of a set of floats
Largest(S) == CHOOSE m \in S : \A x \in S : FloatLE(x, m)

\* max(max_single * multiplier, total_volume * volume_multiplier,
\*     max_single * unique_addresses * 0.5), each product a float64 product
ThreeTermEstimate(records, multiplier, volume_multiplier) ==
    LET max_single == Largest(ObservedAmounts(records))
        unique_addresses == FloatOf(Cardinality(ObservedAddresses(records)), 1)
    IN  Largest({FloatMul(max_single, FloatOf(multiplier, 1)),
                 FloatMul(ObservedVolume(records), FloatOf(volume_multiplier, 1)),
                 FloatMul(FloatMul(max_single, unique_addresses), FloatOf(1, 2))})

\* max(total_volume * 5, max_single * 200)
TwoTermEstimate(records) ==
    Largest({FloatMul(ObservedVolume(records), FloatOf(5, 1)),
             FloatMul(Largest(ObservedAmounts(records)), FloatOf(200, 1))})

\* the multiplier by token family: 50 for pump-style addresses, else 20
FamilyMultiplier(token_address) == IF token_address = "pump" THEN 50 ELSE 20

\* the supply was not taken from metadata
Estimated == env.token_address = "none" \/ env.meta \in {"unavailable", "import_error"}

\* C16 as stated: on every path on which the supply is not taken from
\* metadata, the estimate is max(max_single * multiplier, total_volume *
\* volume_multiplier, max_single * unique_addresses * 0.5), the multiplier
\* fixed by the token family (50 for pump-style tokens, else 20) and the
\* volume multiplier 10 (stated for the files without a negative amount).
C16_ThreeTermEstimateOnEveryPath ==
    (LoadCompleted /\ Estimated /\ NoNegativeAmount)
        => estimated_token_supply
               = ThreeTermEstimate(data, FamilyMultiplier(env.token_address), 10)

\* C16 amended: the three-term estimate is used when the collaborator was
\* imported and built but gave no supply; when it cannot be imported or the
\* records carry no token_address the estimate is max(total_volume * 5,
\* max_single * 200) for every token family.
C16_EstimateByPath ==
    LoadCompleted
        => /\ (env.token_address # "none" /\ env.meta = "unavailable")
                => estimated_token_supply
                       = ThreeTermEstimate(data, FamilyMultiplier(env.token_address), 10)
           /\ (env.token_address = "none" \/ env.meta = "import_error")
                => estimated_token_supply = TwoTermEstimate(data)

\* one transfer of 1.1 pump-style tokens, no supply in the metadata: 50 times
\* the transfer, above 10 times the volume and above 1.1 * 2 * 0.5; the
\* float64 product 1.1 * 50 is 55.00000000000001, not 55
C16_Witness ==
    /\ LoadCompleted
    /\ env.token_address = "pump" /\ env.meta = "unavailable"
    /\ Len(data) = 1
    /\ estimated_token_supply = FloatMul(FloatOf(11, 10), FloatOf(50, 1))
    /\ estimated_token_supply # FloatOf(55, 1)
    /\ FloatGT(estimated_token_supply, FloatOf(55, 1))

\* C17: whatever the metadata collaborator does (returns nothing, returns
\* metadata without a supply, cannot be imported, cannot be constructed,
\* raises), load_data of a file with a valid record completes, with the
\* records loaded and an estimated supply in place.
C17_MetadataFailureNeverFatal ==
    (pc # "new" /\ dropna(CoerceAll(data)) # <<>>)
        => /\ LoadCompleted
           /\ df = dropna(CoerceAll(data))
           /\ ~estimated_token_supply.nan

\* C18: no analysis operation has a fatal-error path: for every record set,
\* the empty one and one whose records are all invalid included,
\* preprocessing and aggregation run to completion without raising.
C18_NoFatalErrorPath == pc # "load_failed"

----------------------------------------------------------------------------
(* The paginated crawl: SolscanCrawler.get_all_token_transfers             *)
(* (crawler.py), SolscanAnalyzer.crawl_all_data of solscanCrawler.py and   *)
(* SolscanAnalyzer.crawl_all_data of solscan_analyzer.py.  The page loops  *)
(* are the same but for the page counter after a short page; both          *)
(* SolscanAnalyzer.get_token_transfers repeat their GET themselves and     *)
(* refresh the Cloudflare clearance on a block.  crawl_all_data of         *)
(* solscanCrawler.py calls get_token_metadata before its loop; the other   *)
(* two make no lookup.  gets counts the calls of session.get, refresh_gets *)
(* the calls of temp_session.get in _update_cf_clearance_with_requests.    *)
(* pc is "metadata" inside get_token_metadata, "metadata_done" when it has *)
(* returned, "while" at the loop test, "request" before a GET, "called"    *)
(* when get_token_transfers has returned, "crawl_done" after the loop and   *)
(* "crawl_raised" when the loop body has raised and the crawl has ended     *)
(* without building its result.                                             *)

MaxPages == 2

RetryLimits == {0, 1}

\* max_retries of SolscanAnalyzer.get_token_transfers
max_retries == 2

\* SolscanCrawler of crawler.py, SolscanAnalyzer of solscanCrawler.py and
\* SolscanAnalyzer of solscan_analyzer.py
Crawlers == {"SolscanCrawler", "SolscanAnalyzer", "solscan_analyzer.SolscanAnalyzer"}

\* the two classes whose get_token_transfers has its own retry loop and
\* whose page loop is crawl_all_data
Analyzers == {"SolscanAnalyzer", "solscan_analyzer.SolscanAnalyzer"}

\* crawl_all_data of solscanCrawler.py starts with get_token_metadata
looks_up_metadata(crawler) == crawler = "SolscanAnalyzer"

Configs == [crawler : Crawlers, max_pages : 1..MaxPages, retry_failed_pages : RetryLimits]

\* default_params.page_size of the configuration
default_page_size == 2

\* what one GET can come back with: status 200 with a JSON object whose
\* 'data' list has page_size records, fewer, more, or none; status 200 with a
\* falsy JSON value (null, 0, false, "", [], {}); status 200 with JSON that
\* is truthy and no container (a number, true); status 304; a Cloudflare
\* block whose clearance refresh succeeds (through the browser, or through
\* the HTTP refresh after the browser failed) or fails; any other status, or
\* an exception
HttpResponses ==
    {"ok_full", "ok_short", "ok_long", "ok_empty", "ok_falsy", "ok_scalar",
     "not_modified", "blocked_refreshed", "blocked_refreshed_http", "blocked", "error"}

\* the records of page p when it holds n of them: the i-th record of page p
PageRecords(p, n) == [i \in 1..n |-> [page |-> p, index |-> i]]

\* the value get_token_transfers returns for page p on a response it returns
\* on
Body(r, p) ==
    CASE r = "ok_full" -> Page("page", PageRecords(p, default_page_size))
      [] r = "ok_short" -> Page("page", PageRecords(p, default_page_size - 1))
      [] r = "ok_long" -> Page("page", PageRecords(p, default_page_size + 1))
      [] r \in {"ok_empty", "not_modified"} -> Page("no_data", <<>>)
      [] r = "ok_scalar" -> Page("scalar", <<>>)
      [] OTHER -> NoPage

\* SolscanAnalyzer.get_token_transfers goes round its own loop again
Continues(crawler, r, n) ==
    /\ crawler \in Analyzers
    /\ r \in {"blocked_refreshed", "blocked_refreshed_http", "error"}
    /\ n < max_retries

\* one call more than range(retry_failed_pages + 1) allows
retries_exhausted_late(n, retry_failed_pages) == n >= retry_failed_pages + 2

\* 'for retry in range(retry_failed_pages + 1)' has no iteration left
retries_exhausted(n, retry_failed_pages) == n >= retry_failed_pages + 1

\* the keys get_token_metadata adds to the metadata it returns, and the keys
\* of the 'metadata' object of a transfer page
TokenMetadata == {"actual_total_supply", "total_supply_raw", "decimals"}

PageMetadata == {"accounts", "tokens"}

\* len(page_data['data'])
current_page_count(returned_page) == Len(returned_page.data)

\* the page's records put in place of the list
extend_replacing(list, records) == records

\* all_data.extend(page_data['data'])
extend(list, records) == list \o records

\* page += 1
next_page(p) == p + 1

(* SolscanAnalyzer.get_token_metadata: three endpoints, retries, and the call
   of itself after a Cloudflare refresh.  frames holds one entry per active
   call, the innermost last.  Nothing in the method limits the depth of the
   calls; the interpreter's recursion limit does.  A call so deep that a
   session.get no longer fits under the limit gets RecursionError from each
   of its GETs, inside the try block: 'except Exception' takes each as a
   failed attempt, the call runs out of attempts and returns None, and every
   caller returns that None.  Whether such a GET has sent its request before
   it raises depends on the build of the interpreter and of the HTTP
   library.  MaxDepth is the number of nested calls whose GETs still fit;
   it is about a thousand in the program and a small number here. *)

MaxDepth == 3

\* indices of the endpoints list (lines 316-320)
Endpoints == {0, 1, 2}

\* line 324: max_retries = 3 if endpoint_idx == 0 else 1
endpoint_retries(endpoint_idx) == IF endpoint_idx = 0 THEN 3 ELSE 1

\* what one session.get can lead to: 200 with a usable supply, 200 without,
\* 304, 403 with _handle_cloudflare_challenge returning True (through the
\* browser, or through the HTTP refresh after the browser failed) or False,
\* any other status, an exception
MetadataResponses ==
    {"supply", "no_supply", "not_modified", "blocked_refreshed", "blocked_refreshed_http",
     "blocked", "error", "exception"}

\* 403 answers after which _handle_cloudflare_challenge returned True
Refreshed == {"blocked_refreshed", "blocked_refreshed_http"}

\* temp_session.get of _update_cf_clearance_with_requests, which runs when
\* the browser refresh has failed
refresh_requests(r) == IF r \in {"blocked_refreshed_http", "blocked"} THEN 1 ELSE 0

Frame(endpoint_idx, n) == [endpoint_idx |-> endpoint_idx, retry |-> n]

\* the innermost call with its loops moved on to the next attempt
NextAttempt(stack, leave_endpoint) ==
    LET top == stack[Len(stack)]
        rest == SubSeq(stack, 1, Len(stack) - 1)
    IN  IF ~leave_endpoint /\ top.retry < endpoint_retries(top.endpoint_idx) - 1
        THEN Append(rest, Frame(top.endpoint_idx, top.retry + 1))
        ELSE IF top.endpoint_idx + 1 \in Endpoints
        THEN Append(rest, Frame(top.endpoint_idx + 1, 0))
        ELSE <<>>

\* the nested calls whose GETs fit under the limit: one less when the first
\* call was made by crawl_all_data, whose own call is on the stack as well
DepthLimit == IF config = NoConfig THEN MaxDepth ELSE MaxDepth - 1

\* what a session.get of the innermost call can lead to: RecursionError
\* only, in a call beyond the depth limit
AttemptOutcomes(stack) ==
    IF Len(stack) > DepthLimit THEN {"recursion_error"} ELSE MetadataResponses

\* one pass through the body of the retry loop (lines 327-480) in the
\* innermost call: the GET and what its response leads to.  A call that
\* returns hands its value down through every caller's 'return
\* self.get_token_metadata(token_address)'.
MetadataAttempt ==
    /\ pc = "metadata"
    /\ \E r \in AttemptOutcomes(frames) :
        /\ gets' \in (IF r = "recursion_error" THEN {gets, gets + 1} ELSE {gets + 1})
        /\ refresh_gets' = refresh_gets + refresh_requests(r)
        /\ CASE r = "supply" ->
                    /\ token_metadata' = "metadata"
                    /\ frames' = <<>>
             [] r \in Refreshed ->
                    \* return self.get_token_metadata(token_address)
                    /\ frames' = Append(frames, Frame(0, 0))
                    /\ UNCHANGED token_metadata
             [] OTHER ->
                    /\ frames' = NextAttempt(frames, r = "blocked")
                    /\ UNCHANGED token_metadata
    /\ pc' = IF frames' = <<>> THEN "metadata_done" ELSE "metadata"
    /\ UNCHANGED <<config, page, retry, attempt, page_data, failed_pages, all_data, requests>>
    /\ UNCHANGED <<total_records, all_metadata, page_metadata>>
    /\ UNCHANGED <<data, env, feed, df, estimated_token_supply, net_flows_df, call, label>>
    /\ UNCHANGED <<analyzerVars, appVars>>

\* the attempts one call has when it goes through every endpoint
AttemptsPerCall ==
    endpoint_retries(0) + endpoint_retries(1) + endpoint_retries(2)


InitCrawl ==
    /\ AnalyzerFresh
    /\ AppIdle
    /\ data = <<>>
    /\ env = Env("none", "unused", 0)
    /\ feed = {}
    /\ df = <<>>
    /\ estimated_token_supply = Unset
    /\ net_flows_df = <<>>
    /\ call = NoCall
    /\ label = "none"
    /\ config \in Configs
    /\ pc = IF looks_up_metadata(config.crawler) THEN "metadata" ELSE "while"
    /\ page = 1
    /\ retry = 0
    /\ attempt = 0
    /\ page_data = NoPage
    /\ failed_pages = <<>>
    /\ all_data = <<>>
    /\ requests = <<>>
    /\ gets = 0
    /\ total_records = 0
    /\ page_metadata = FALSE
    /\ token_metadata = "None"
    /\ all_metadata = {}
    /\ frames = IF looks_up_metadata(config.crawler) THEN <<Frame(0, 0)>> ELSE <<>>
    /\ refresh_gets = 0

\* solscanCrawler.py lines 592-596, once get_token_metadata has returned:
\* 'if token_metadata: all_metadata.update(token_metadata)'
TokenMetadataUpdate ==
    /\ pc = "metadata_done"
    /\ config # NoConfig
    /\ all_metadata' = IF token_metadata = "metadata"
                       THEN all_metadata \cup TokenMetadata ELSE all_metadata
    /\ pc' = "while"
    /\ UNCHANGED <<config, page, retry, attempt, page_data, failed_pages, all_data, requests, gets>>
    /\ UNCHANGED <<total_records, page_metadata, token_metadata, frames, refresh_gets>>
    /\ UNCHANGED <<data, env, feed, df, estimated_token_supply, net_flows_df, call, label>>
    /\ UNCHANGED <<analyzerVars, appVars>>

\* 'while page <= max_pages', then 'page_data = None' and the first iteration
\* of the for loop
WhileTest ==
    /\ pc = "while"
    /\ IF page <= config.max_pages
       THEN /\ pc' = "request"
            /\ retry' = 0
            /\ attempt' = 0
            /\ page_data' = NoPage
       ELSE /\ pc' = "crawl_done"
            /\ UNCHANGED <<retry, attempt, page_data>>
    /\ UNCHANGED <<config, page, failed_pages, all_data, requests, gets>>
    /\ UNCHANGED <<total_records, all_metadata, page_metadata, token_metadata, frames, refresh_gets>>
    /\ UNCHANGED <<data, env, feed, df, estimated_token_supply, net_flows_df, call, label>>
    /\ UNCHANGED <<analyzerVars, appVars>>

\* one session.get of get_token_transfers for the current page, and the
\* return of get_token_transfers when this response ends the call
HttpGet ==
    /\ pc = "request"
    /\ gets' = gets + 1
    /\ \E r \in HttpResponses :
        \* _handle_cloudflare_challenge is called on 403 while attempts are left
        /\ refresh_gets' = refresh_gets +
               (IF config.crawler \in Analyzers /\ attempt < max_retries
                THEN refresh_requests(r) ELSE 0)
        /\ IF Continues(config.crawler, r, attempt)
           THEN /\ attempt' = attempt + 1
                /\ UNCHANGED <<pc, retry, page_data, requests, page_metadata>>
           ELSE /\ attempt' = 0
                /\ page_data' = Body(r, page)
                /\ page_metadata' \in (IF page_data'.kind = "page"
                                       THEN BOOLEAN ELSE {FALSE})
                /\ retry' = retry + 1
                /\ requests' = Append(requests, [page |-> page,
                                                 result |-> page_data'.kind,
                                                 count |-> Len(page_data'.data)])
                /\ pc' = "called"
    /\ UNCHANGED <<config, page, failed_pages, all_data>>
    /\ UNCHANGED <<total_records, all_metadata, token_metadata, frames>>
    /\ UNCHANGED <<data, env, feed, df, estimated_token_supply, net_flows_df, call, label>>
    /\ UNCHANGED <<analyzerVars, appVars>>

\* the rest of the loop body once get_token_transfers has returned
PageResult ==
    /\ pc = "called"
    /\ IF page_data.kind = "None"
       THEN IF ~retries_exhausted(retry, config.retry_failed_pages)
            THEN \* next iteration of the for loop
                 /\ pc' = "request"
                 /\ UNCHANGED <<page, failed_pages, all_data, total_records, all_metadata>>
            ELSE \* failed_pages.append(page); page += 1; continue
                 /\ failed_pages' = Append(failed_pages, page)
                 /\ page' = next_page(page)
                 /\ pc' = "while"
                 /\ UNCHANGED <<all_data, total_records, all_metadata>>
       ELSE IF page_data.kind = "scalar"
       THEN \* 'data' not in page_data raises TypeError; nothing catches it
            \* in the method, which ends without building its result
            /\ pc' = "crawl_raised"
            /\ UNCHANGED <<page, failed_pages, all_data, total_records, all_metadata>>
       ELSE IF page_data.kind = "no_data"
       THEN \* 'data' not in page_data or not page_data['data']: break
            /\ pc' = "crawl_done"
            /\ UNCHANGED <<page, failed_pages, all_data, total_records, all_metadata>>
       ELSE /\ all_data' = extend(all_data, page_data.data)
            /\ total_records' = total_records + current_page_count(page_data)
            \* if 'metadata' in page_data: all_metadata = page_data['metadata']
            /\ all_metadata' = IF page_metadata THEN PageMetadata ELSE all_metadata
            /\ UNCHANGED failed_pages
            /\ IF current_page_count(page_data) < default_page_size
               THEN \* break, after 'page += 1' in crawl_all_data only
                    /\ page' = IF config.crawler \in Analyzers
                               THEN next_page(page) ELSE page
                    /\ pc' = "crawl_done"
               ELSE /\ page' = next_page(page)
                    /\ pc' = "while"
    /\ UNCHANGED <<config, retry, attempt, page_data, requests, gets>>
    /\ UNCHANGED <<page_metadata, token_metadata, frames, refresh_gets>>
    /\ UNCHANGED <<data, env, feed, df, estimated_token_supply, net_flows_df, call, label>>
    /\ UNCHANGED <<analyzerVars, appVars>>

NextCrawl ==
    \/ MetadataAttempt
    \/ TokenMetadataUpdate
    \/ WhileTest
    \/ HttpGet
    \/ PageResult

SpecCrawl == InitCrawl /\ [][NextCrawl]_vars

----------------------------------------------------------------------------
(* Properties of the paginated crawl (specification SpecCrawl) *)

Crawling ==
    pc \in {"metadata", "metadata_done", "while", "request", "called", "crawl_done",
            "crawl_raised"}

\* the crawl has ended: the loop is left, or the loop body has raised
CrawlEnded == pc \in {"crawl_done", "crawl_raised"}

\* the calls of get_token_transfers made for page p
CallsFor(p) == {i \in DOMAIN requests : requests[i].page = p}

\* how often p stands in failed_pages
TimesFailed(p) == Cardinality({i \in DOMAIN failed_pages : failed_pages[i] = p})

FailedPages == {failed_pages[i] : i \in DOMAIN failed_pages}

\* every call allowed for page p was made and returned nothing usable
AllAttemptsFailed(p) ==
    /\ Cardinality(CallsFor(p)) = config.retry_failed_pages + 1
    /\ \A i \in CallsFor(p) : requests[i].result = "None"

\* C19: the page loop asks for each page at most retry_failed_pages + 1 times;
\* a page whose every attempt failed stands in failed_pages exactly once, as
\* soon as the page counter has moved past it (and no other page does), none
\* of its records is in all_data, and the crawl goes on with the next page
\* number: it does not end before asking for that page unless the failed
\* page was the last one allowed.  The crawl never raises on a failed
\* attempt: when the loop body raises, the call before it had returned a
\* truthy value.
C19_BoundedRetriesThenSkip ==
    Crawling
        => /\ \A p \in 1..(config.max_pages + 1) :
                  /\ Cardinality(CallsFor(p)) <= config.retry_failed_pages + 1
                  /\ TimesFailed(p) <= 1
                  /\ TimesFailed(p) = 1 <=> (AllAttemptsFailed(p) /\ page > p)
                  /\ TimesFailed(p) = 1
                       => /\ \A i \in DOMAIN all_data : all_data[i].page # p
                          /\ (CrawlEnded /\ p < config.max_pages)
                                => CallsFor(p + 1) # {}
           /\ pc = "crawl_raised"
                => /\ requests # <<>>
                   /\ requests[Len(requests)].result = "scalar"
                   /\ requests[Len(requests)].page \notin FailedPages

\* page 1 failed twice and was skipped, page 2 then came back full
C19_Witness ==
    /\ Crawling
    /\ config.retry_failed_pages = 1
    /\ failed_pages = <<1>>
    /\ Cardinality(CallsFor(1)) = 2
    /\ all_data = PageRecords(2, default_page_size)

\* the most calls of get_token_transfers and the most GETs a crawl can make
MaxCalls == config.max_pages * (config.retry_failed_pages + 1)

MaxGets == MaxCalls * (IF config.crawler \in Analyzers THEN max_retries + 1 ELSE 1)

\* the requests the retry budget of the metadata lookup allows
LookupGets == IF looks_up_metadata(config.crawler) THEN AttemptsPerCall ELSE 0

\* C20: whatever the API answers (failures, empty, short and full pages in
\* any mix) the crawl sends a bounded number of requests, and no request is
\* for a page number above max_pages: the calls of the page loop stay within
\* max_pages * (retry_failed_pages + 1), and the GETs within that many calls
\* of max_retries + 1 GETs (one GET in SolscanCrawler) plus the 3 + 1 + 1
\* GETs of the metadata lookup.
C20_CrawlTerminatesWithinMaxPages ==
    Crawling
        => /\ Len(requests) <= MaxCalls
           /\ gets <= LookupGets + MaxGets
           /\ \A i \in DOMAIN requests : requests[i].page \in 1..config.max_pages
           /\ pc = "request" => page \in 1..config.max_pages

\* the result dict built after the loop
result ==
    [total_pages   |-> page - 1,
     total_records |-> total_records,
     failed_pages  |-> failed_pages,
     data          |-> all_data,
     metadata      |-> all_metadata]

CrawlReturned == pc = "crawl_done"

\* the pages for which some call came back with records
Delivered == {requests[i].page : i \in {j \in DOMAIN requests : requests[j].result = "page"}}

\* the records that the calls up to the n-th came back with, call after call
RECURSIVE DeliveredRecords(_)
DeliveredRecords(n) ==
    IF n = 0 THEN <<>>
    ELSE DeliveredRecords(n - 1)
         \o (IF requests[n].result = "page"
             THEN PageRecords(requests[n].page, requests[n].count) ELSE <<>>)

\* C21: when the crawl returns, data is the concatenation of the records of
\* the pages that were fetched with records, page after page in increasing
\* page order and each page's records in the order they came in (so what was
\* fetched before a later failure is kept), no page of failed_pages has a
\* record in it, and total_records is the length of data.
C21_PartialResultsKept ==
    CrawlReturned
        => /\ result.data = DeliveredRecords(Len(requests))
           /\ \A i, j \in DOMAIN result.data :
                  i < j => \/ result.data[i].page < result.data[j].page
                           \/ /\ result.data[i].page = result.data[j].page
                              /\ result.data[i].index < result.data[j].index
           /\ {result.data[i].page : i \in DOMAIN result.data} = Delivered
           /\ \A i \in DOMAIN result.data : result.data[i].page \notin FailedPages
           /\ result.total_records = Len(result.data)

\* page 1 came back with more records than page_size and page 2 failed: the
\* three records of page 1 are the result
C21_Witness ==
    /\ CrawlReturned
    /\ result.data = PageRecords(1, default_page_size + 1)
    /\ result.failed_pages = <<2>>
    /\ result.total_records = default_page_size + 1

----------------------------------------------------------------------------
(* Address labels and the exclusion check of check_classification.py.  A
   Python str is modelled as the sequence of its characters. *)

MaxLabelLen == 3

LabelAlphabet == {"A", "M", "m"}

\* line 43
excluded_keywords ==
    <<<<"E", "x", "c", "h", "a", "n", "g", "e">>,
      <<"A", "g", "g", "r", "e", "g", "a", "t", "o", "r">>,
      <<"A", "M", "M">>,
      <<"P", "o", "o", "l">>,
      <<"A", "u", "t", "h", "o", "r", "i", "t", "y">>,
      <<"C", "L", "M", "M">>,
      <<"C", "P", "M", "M">>,
      <<"D", "C", "A">>,
      <<"A", "u", "c", "t", "i", "o", "n">>>>

\* every string over the alphabet up to the length bound
GeneratedLabels == UNION {[1..n -> LabelAlphabet] : n \in 0..MaxLabelLen}

\* labels and domains as Solscan attaches them to accounts
SampleLabels ==
    {<<"R", "a", "y", " ", "P", "o", "o", "l">>,
     <<"p", "o", "o", "l">>,
     <<"M", "e", "t", " ", "D", "C", "A">>,
     <<"E", "x", "c", "h", "a", "n", "g", "e">>,
     <<"x", "C", "P", "M", "M", "x">>,
     <<"C", "L", "M">>,
     <<"w", "h", "a", "l", "e">>,
     <<"O", "K", "X", " ", "A", "g", "g", "r", "e", "g", "a", "t", "o", "r">>,
     <<"A", "u", "c", "t", "i", "o", "n", "s">>}

SampleDomains == {<<"A", "M", "M", ".", "s", "o", "l">>, <<"p", "o", "o", "l", ".", "s", "o", "l">>}

Labels == GeneratedLabels \cup SampleLabels

\* the entries 'accounts' can hold for an address
InfosOf(a) ==
    {[account_address |-> a]}
    \cup {[account_address |-> a, account_label |-> l] : l \in Labels}
    \cup {[account_address |-> a, account_domain |-> d] : d \in SampleDomains}
    \cup {[account_address |-> a, account_label |-> l, account_domain |-> d] :
            l \in {<<"R", "a", "y", " ", "P", "o", "o", "l">>, <<"p", "o", "o", "l">>}, d \in SampleDomains}

AccountMaps ==
    UNION {{f \in [S -> UNION {InfosOf(a) : a \in S}] :
              \A a \in S : f[a].account_address = a} : S \in SUBSET Addresses}

\* 'keyword in label' on two str: substring search
contains(keyword, text) ==
    \E i \in 0..(Len(text) - Len(keyword)) :
        SubSeq(text, i + 1, i + Len(keyword)) = keyword

\* line 47: any(keyword in label for keyword in excluded_keywords)
is_excluded(text) ==
    \E k \in DOMAIN excluded_keywords : contains(excluded_keywords[k], text)

InitLabels ==
    /\ CrawlIdle
    /\ AnalyzerFresh
    /\ accounts \in AccountMaps
    /\ excluded_addresses = {}
    /\ session_state = NoSession
    /\ data = <<Transfer("A", "B", Num(1000), Num(1), Num(7), "tx")>>
    /\ env = Env("none", "unused", 0)
    /\ feed = {}
    /\ df = <<>>
    /\ estimated_token_supply = Unset
    /\ net_flows_df = <<>>
    /\ pc = "new"
    /\ call = NoCall
    /\ label = "none"

\* check_classification_issues from line 24 on, after load_data has
\* returned: analyzer.analyze_net_flows() raises AttributeError, since
\* TokenFlowAnalyzer defines no such method, and the script ends there;
\* lines 44-49 build the list of excluded addresses
CheckClassificationIssues ==
    /\ pc = "loaded"
    /\ IF call_method(instance_dict, "analyze_net_flows") = "AttributeError"
       THEN /\ pc' = "check_raised"
            /\ UNCHANGED excluded_addresses
       ELSE /\ excluded_addresses' =
                   {a \in DOMAIN address_labels : is_excluded(address_labels[a])}
            /\ pc' = "checked"
    /\ UNCHANGED <<data, env, feed, df, estimated_token_supply, net_flows_df, call, label>>
    /\ UNCHANGED <<crawlVars, analyzerVars, accounts, session_state>>

NextLabels == LoadData \/ CheckClassificationIssues

SpecLabels == InitLabels /\ [][NextLabels]_vars

\* the script has ended, at its last line or with the exception of line 24
Checked == pc \in {"checked", "check_raised"}

KeywordSet == {excluded_keywords[k] : k \in DOMAIN excluded_keywords}

\* some contiguous piece of the label is a keyword
HasKeywordPiece(l) ==
    \E i \in 1..Len(l) : \E j \in i..Len(l) : SubSeq(l, i, j) \in KeywordSet

\* C22: an address is excluded exactly when the label map has a label for it
\* and the label contains a keyword of the list as a substring; an address
\* whose 'accounts' entry carries no label is never excluded
C22_ExcludedIffLabelHasKeyword ==
    Checked =>
        \A a \in Addresses :
            /\ a \in excluded_addresses <=>
                   (a \in DOMAIN address_labels /\ HasKeywordPiece(address_labels[a]))
            /\ (a \notin DOMAIN accounts \/ DOMAIN accounts[a] \cap LabelKeys = {})
                   => a \notin excluded_addresses

----------------------------------------------------------------------------
(* Callers of a loaded analyzer: test_data_loading of debug_load.py, which
   branches on what load_data returned, and the three report methods *)

\* bool(v) of a returned value
truthy(v) == v # None

\* files of one record of any kind, or of two well-formed ones
CallerFiles ==
    {<<r>> : r \in Records} \cup {<<r1, r2>> : r1, r2 \in CleanRecords}

InitCallers ==
    /\ CrawlIdle
    /\ AnalyzerFresh
    /\ AppIdle
    /\ data \in CallerFiles
    /\ env \in FlowEnvs
    /\ feed = {}
    /\ df = <<>>
    /\ estimated_token_supply = Unset
    /\ net_flows_df = <<>>
    /\ pc = "new"
    /\ call = NoCall
    /\ label = "none"

\* debug_load.py lines 48-70, after 'success = analyzer.load_data(...)'
TestDataLoading ==
    /\ pc = "loaded"
    /\ IF truthy(returned)
       THEN \* lines 49-61: the success report, then
            \* analyzer.analyze_net_flows(): the class has no such method,
            \* and line 67 catches the AttributeError and prints it
            /\ call_method(instance_dict, "analyze_net_flows") = "AttributeError"
            /\ pc' = "reported_exception"
       ELSE \* line 65: the failure report
            /\ pc' = "reported_load_failure"
    /\ UNCHANGED <<net_flows_df, instance_dict, returned>>
    /\ UNCHANGED <<data, env, feed, df, estimated_token_supply, call, label>>
    /\ UNCHANGED <<crawlVars, address_labels, appVars>>

\* reading self.net_flows_df: the frame, or AttributeError when no statement
\* has assigned the attribute yet (__init__ does not)
read_net_flows_df == IF "net_flows_df" \in instance_dict THEN "frame" ELSE "AttributeError"

\* the common shape of lines 365-381, 393-410 and 414-445: value is what
\* the method returns when it runs to its end
ReportMethod(value) ==
    /\ IF read_net_flows_df = "AttributeError"
       THEN \* 'if self.net_flows_df is None' raises before it can compare
            /\ pc' = "getter_raised"
            /\ returned' = "raised"
            /\ UNCHANGED <<net_flows_df, instance_dict>>
       ELSE IF read_net_flows_df = None
       THEN \* self.calculate_net_flows(), then the report
            /\ \E order \in Orders(all_addresses(df)) :
                   net_flows_df' = net_flows(df, order, estimated_token_supply)
            /\ instance_dict' = instance_dict \cup {"net_flows_df"}
            /\ returned' = value
            /\ pc' = "analyzed"
       ELSE /\ returned' = value
            /\ UNCHANGED <<pc, net_flows_df, instance_dict>>
    /\ UNCHANGED <<data, env, feed, df, estimated_token_supply, call, label>>
    /\ UNCHANGED <<crawlVars, address_labels, appVars>>

GetTopNetInflows ==
    /\ pc \in {"loaded", "analyzed"}
    /\ ReportMethod("top_inflows")

GetTopNetOutflows ==
    /\ pc \in {"loaded", "analyzed"}
    /\ ReportMethod("top_outflows")

\* analyze_address_patterns prints its report and has no return statement
AnalyzeAddressPatterns ==
    /\ pc \in {"loaded", "analyzed"}
    /\ ReportMethod(None)

NextCallers ==
    \/ LoadData
    \/ CalculateNetFlows
    \/ TestDataLoading
    \/ GetTopNetInflows
    \/ GetTopNetOutflows
    \/ AnalyzeAddressPatterns

SpecCallers == InitCallers /\ [][NextCallers]_vars

\* C23: when load_data has read and preprocessed the file, what it returned
\* is truthy, and test_data_loading does not report a failed load
C23_LoadDataReturnsTruthy ==
    /\ pc = "loaded" => truthy(returned)
    /\ pc # "reported_load_failure"

\* C30: a report method called on an analyzer that is loaded but not yet
\* analyzed does not fail: no call ends in an exception
C30_ReportMethodsComputeOnDemand == pc # "getter_raised"

----------------------------------------------------------------------------
(* The sign and the activity threshold in the labels (SpecClassify) *)

BuyLabels ==
    {"whale_buy", "large_buyer", "large_holder_buy", "medium_buyer", "active_buyer", "ordinary_buyer"}

SellLabels ==
    {"whale_sell", "large_seller", "large_holder_sell", "medium_seller", "active_seller", "ordinary_seller"}

\* C24: for every supply, zero included, a buy-side label is returned only
\* for net_tokens > 0 and a sell-side label only for net_tokens < 0
C24_LabelsFollowSign ==
    Returned =>
        /\ label \in BuyLabels => call.net_tokens > 0
        /\ label \in SellLabels => call.net_tokens < 0

HighFrequencyLabels ==
    {"large_market_maker", "market_maker_arbitrageur", "large_buyer", "large_seller", "active_buyer", "active_seller"}

LowFrequencyLabels ==
    {"large_holder_buy", "large_holder_sell", "medium_buyer", "medium_seller", "ordinary_buyer", "ordinary_seller", "no_net_flow"}

\* C25: the labels of the high-frequency branch are returned only for 10 or
\* more transactions, those of the low-frequency branch only for fewer
C25_ActivityThresholdSeparatesLabels ==
    Returned =>
        /\ label \in HighFrequencyLabels => call.total_transactions >= 10
        /\ label \in LowFrequencyLabels => call.total_transactions < 10

\* exactly 10 transactions already give a high-frequency label
C25_Witness ==
    /\ Returned
    /\ call.total_transactions = 10
    /\ call.supply = Val(1000000)
    /\ call.net_tokens = 500
    /\ label = "large_buyer"

----------------------------------------------------------------------------
(* The public methods of SolscanAnalyzer (solscanCrawler.py) called on a new
   object: update_cookies_for_token and get_token_metadata *)

InitMetadata ==
    /\ AnalyzerFresh
    /\ AppIdle
    /\ data = <<>>
    /\ env = Env("none", "unused", 0)
    /\ feed = {}
    /\ df = <<>>
    /\ estimated_token_supply = Unset
    /\ net_flows_df = <<>>
    /\ call = NoCall
    /\ label = "none"
    /\ config = NoConfig
    /\ page = 0
    /\ retry = 0
    /\ attempt = 0
    /\ page_data = NoPage
    /\ failed_pages = <<>>
    /\ all_data = <<>>
    /\ requests = <<>>
    /\ gets = 0
    /\ total_records = 0
    /\ all_metadata = {}
    /\ page_metadata = FALSE
    /\ token_metadata = "None"
    /\ pc = "created"
    /\ frames = <<>>
    /\ refresh_gets = 0

\* how a clearance refresh can end: the browser got the cookie, the browser
\* failed and the HTTP request got it, both failed
RefreshOutcomes == {"browser", "http", "failed"}

\* update_cookies_for_token (lines 277-301), called on the new object as
\* test_cookie_update.py does: the browser refresh, then the HTTP refresh
\* with its one temp_session.get; pc says whether it returned True or False
UpdateCookiesForToken ==
    /\ pc = "created"
    /\ \E outcome \in RefreshOutcomes :
        /\ refresh_gets' = refresh_gets + (IF outcome = "browser" THEN 0 ELSE 1)
        /\ pc' = IF outcome = "failed" THEN "cookies_failed" ELSE "cookies_updated"
    /\ UNCHANGED <<config, page, retry, attempt, page_data, failed_pages, all_data, requests, gets>>
    /\ UNCHANGED <<total_records, all_metadata, page_metadata, token_metadata, frames>>
    /\ UNCHANGED <<data, env, feed, df, estimated_token_supply, net_flows_df, call, label>>
    /\ UNCHANGED <<analyzerVars, appVars>>

\* the call of get_token_metadata, up to the first pass of its loops
GetTokenMetadata ==
    /\ pc \in {"created", "cookies_updated", "cookies_failed"}
    /\ frames' = <<Frame(0, 0)>>
    /\ pc' = "metadata"
    /\ UNCHANGED <<config, page, retry, attempt, page_data, failed_pages, all_data, requests, gets>>
    /\ UNCHANGED <<total_records, all_metadata, page_metadata, token_metadata, refresh_gets>>
    /\ UNCHANGED <<data, env, feed, df, estimated_token_supply, net_flows_df, call, label>>
    /\ UNCHANGED <<analyzerVars, appVars>>

NextMetadata ==
    \/ UpdateCookiesForToken
    \/ GetTokenMetadata
    \/ MetadataAttempt

SpecMetadata == InitMetadata /\ [][NextMetadata]_vars

\* C26: get_token_metadata sends at most 3 + 1 + 1 requests, whatever the
\* server answers and whatever the cookie refresh does
C26_AtMostFiveRequests == gets <= AttemptsPerCall

----------------------------------------------------------------------------
(* What the crawl reports: metadata and page count (SpecCrawl) *)

\* C27: when the token-metadata fetch at the start of the crawl succeeded,
\* the returned metadata holds the token metadata, actual_total_supply
\* included, whatever the pages held
C27_TokenMetadataKept ==
    (CrawlReturned /\ token_metadata = "metadata")
        => TokenMetadata \subseteq result.metadata

\* C28: in every implementation the reported total_pages is the number of
\* pages that delivered records or were recorded as failed
C28_TotalPagesCountsPagesDone ==
    CrawlReturned => result.total_pages = Cardinality(Delivered \cup FailedPages)

----------------------------------------------------------------------------
(* The dashboard: StreamlitTokenFlowApp.run with the crawl button or the
   analyze button pressed.  A rerun without a button only renders.  pc is
   "app" between runs, "crawl_started" and "crawl_reported" inside the
   handler of the crawl button. *)

\* an analyzer on which load_data and calculate_net_flows have run
AnalyzerObject(rows) ==
    [none |-> FALSE,
     attributes |-> init_attributes \cup {"estimated_token_supply", "net_flows_df"},
     net_flows_df |-> rows]

\* the files the sidebar offers or a crawl saves, and their collaborators
AppFiles == {<<>>} \cup CallerFiles

AppEnvs == FlowEnvs \cup {Env("plain", "raises", 0)}

\* analyzer.load_data(file_path) raises
load_raises(file, e) ==
    \/ file = <<>>
    \/ e.token_address # "none" /\ e.meta = "raises"
    \/ dropna(CoerceAll(file)) = <<>>

\* lines 593-639: the analyzer, or None when anything raised
load_and_analyze_data(file, e, order) ==
    IF load_raises(file, e)
    THEN NoneObject
    ELSE AnalyzerObject(net_flows(dropna(CoerceAll(file)), order,
                                  SupplyEstimate(CoerceAll(file), e)))

\* every value load_and_analyze_data can return for a file and collaborators
\* of the kinds above, the rows of the analysis in either order
LoadedAnalyzers ==
    UNION {{load_and_analyze_data(file, e, order) :
                order \in Orders(all_addresses(dropna(CoerceAll(file))))} :
           file \in AppFiles, e \in AppEnvs}

\* the test of the result left out
test_left_out(obj) == TRUE

\* 'if analyzer:' on an object or None
object_truthy(obj) == ~obj.none

\* lines 950-952 and 973-975
store(state, analyzer) ==
    IF object_truthy(analyzer)
    THEN [state EXCEPT !.analyzer = analyzer, !.analysis_complete = TRUE]
    ELSE state

InitApp ==
    /\ CrawlIdle
    /\ AnalyzerFresh
    /\ AppIdle
    /\ data = <<>>
    /\ env = Env("none", "unused", 0)
    /\ feed = {}
    /\ df = <<>>
    /\ estimated_token_supply = Unset
    /\ net_flows_df = <<>>
    /\ pc = "app"
    /\ call = NoCall
    /\ label = "none"

\* lines 930-933 with the crawl button pressed: line 930 tests only the value
\* st.button returned. disabled= (line 578) is how the button is drawn, and
\* it is drawn before line 931 raises the flag, so that the page of a running
\* crawl holds it enabled and a click on it reaches the next run with
\* crawl_in_progress still set
CrawlButton ==
    /\ pc = "app"
    /\ session_state' = [session_state EXCEPT !.crawl_in_progress = TRUE,
                                              !.analysis_complete = FALSE]
    /\ pc' = "crawl_started"
    /\ UNCHANGED <<data, env, feed, df, estimated_token_supply, net_flows_df, call, label>>
    /\ UNCHANGED <<crawlVars, analyzerVars, accounts, excluded_addresses>>

\* lines 936-957; crawled is whether crawl_new_data returned a file
CrawlNewData ==
    /\ pc = "crawl_started"
    /\ \E crawled \in BOOLEAN, analyzer \in LoadedAnalyzers :
           session_state' = IF crawled
                            THEN store(session_state, analyzer)
                            ELSE session_state
    /\ pc' = "crawl_reported"
    /\ UNCHANGED <<data, env, feed, df, estimated_token_supply, net_flows_df, call, label>>
    /\ UNCHANGED <<crawlVars, analyzerVars, accounts, excluded_addresses>>

\* lines 959-960: the flag is taken down and the script runs again
CrawlFinished ==
    /\ pc = "crawl_reported"
    /\ session_state' = [session_state EXCEPT !.crawl_in_progress = FALSE]
    /\ pc' = "app"
    /\ UNCHANGED <<data, env, feed, df, estimated_token_supply, net_flows_df, call, label>>
    /\ UNCHANGED <<crawlVars, analyzerVars, accounts, excluded_addresses>>

\* Streamlit ends the run at one of the st commands of lines 933-957, when
\* the user has touched a widget meanwhile: the rest of the handler, line
\* 959 included, does not run, and session_state stays as it is
ScriptStopped ==
    /\ pc \in {"crawl_started", "crawl_reported"}
    /\ pc' = "app"
    /\ UNCHANGED session_state
    /\ UNCHANGED <<data, env, feed, df, estimated_token_supply, net_flows_df, call, label>>
    /\ UNCHANGED <<crawlVars, analyzerVars, accounts, excluded_addresses>>

\* lines 963-979 with the analyze button pressed
AnalyzeButton ==
    /\ pc = "app"
    /\ \E analyzer \in LoadedAnalyzers :
           session_state' = store(session_state, analyzer)
    /\ UNCHANGED <<data, env, feed, df, estimated_token_supply, net_flows_df, pc, call, label>>
    /\ UNCHANGED <<crawlVars, analyzerVars, accounts, excluded_addresses>>

NextApp ==
    \/ CrawlButton
    \/ CrawlNewData
    \/ CrawlFinished
    \/ ScriptStopped
    \/ AnalyzeButton

SpecApp == InitApp /\ [][NextApp]_vars

\* C29: analysis_complete = True implies a stored analyzer whose net flows
\* have been computed
C29_CompleteImpliesAnalyzer ==
    session_state.analysis_complete
        => /\ ~session_state.analyzer.none
           /\ "net_flows_df" \in session_state.analyzer.attributes

\* a run of the crawl handler that was ended after it had stored the
\* analyzer of the new file: the flag is up, the analyzer with its net
\* flows is stored, and crawl_in_progress was never taken down
C29_Witness ==
    /\ pc = "app"
    /\ session_state.analysis_complete
    /\ session_state.crawl_in_progress
    /\ ~session_state.analyzer.none
    /\ Len(session_state.analyzer.net_flows_df) = 2

====
